---- MODULE Spec2Model ----
(***************************************************************************)
(* The FastMCP tool registry (src/mcp/fastmcp.py) and its FastAPI binding  *)
(* (src/mcp/fastapi_integration.py) as a state machine.                    *)
(*                                                                         *)
(* State: the registry's ordered name -> ToolMetadata mapping, the routes  *)
(* the binder added to the application, and the outcome of the last        *)
(* operation (what it was called with, what it returned or raised, which   *)
(* callables it invoked).                                                  *)
(***************************************************************************)
EXTENDS Naturals, Sequences, FiniteSets, TLC

VARIABLES
    tools,      \* FastMCP.tools: insertion-ordered dict, a sequence of ToolMetadata
    routes,     \* the application's routes, in the order they were added
    bound,      \* whether register_mcp_tools has run on the application
    out,        \* the last operation: its inputs and its outcome
    invoked,    \* the callables the last operation invoked, with their kwargs
    latest,     \* history: name -> the registration last made under that name
    replaced,   \* history: the last replacement: the name, and the callable that was replaced
    binding,    \* history: the prefix and the registrations at the time of binding
    nRegs,      \* history: number of uses of the decorator so far
    order,      \* history: the registered names, in the order of their first registration
    reqs,       \* event loop: the POST requests clients have sent, and how far each has got
    running,    \* event loop: the request whose handler holds the loop's thread, 0 when none
    content,    \* text tools: the text the chat completion returned
    message,    \* text tools: what the tool returned
    others,     \* start-up: the registries of the modules that build a FastMCP of their own
    store,      \* application: the tables of the database, as sequences of rows
    factory,    \* application: the module whose SessionLocal makes the handlers' sessions
    session     \* frontend: st.session_state, the keys that are set and their values

vars == <<tools, routes, bound, out, invoked, latest, replaced, binding, nRegs, order,
          reqs, running, content, message, others, store, factory, session>>
hist == <<latest, replaced, binding, nRegs, order>>
loopVars == <<reqs, running>>
textVars == <<content, message>>
appVars == <<others, store, factory, session>>

(***************************************************************************)
(* Bounds of the model.                                                    *)
(***************************************************************************)
MaxRegs == 3

(***************************************************************************)
(* Python values: None, str, int, and the two sentinels the code uses      *)
(* (inspect.Parameter.empty, Ellipsis).                                    *)
(***************************************************************************)
NoneV == [kind |-> "none", s |-> "", n |-> 0]
StrV(s) == [kind |-> "str", s |-> s, n |-> 0]
IntV(n) == [kind |-> "int", s |-> "", n |-> n]
Empty == [kind |-> "empty", s |-> "", n |-> 0]
Ellipsis == [kind |-> "ellipsis", s |-> "", n |-> 0]

\* Python truthiness, and `a or b`.
Truthy(v) ==
    \/ v.kind = "str" /\ v.s # ""
    \/ v.kind = "int" /\ v.n # 0

PyOr(a, b) == IF Truthy(a) THEN a ELSE b

(***************************************************************************)
(* The callables handed to the decorator.  A callable is its __name__, its *)
(* docstring (None when it has none), its signature (name, annotation or   *)
(* "" when unannotated, default or Empty) and its return annotation.       *)
(***************************************************************************)
Param(name, ann, default) == [name |-> name, ann |-> ann, default |-> default]

\* def echo(x: str) -> str: """Echo x."""; return x
EchoF == [id |-> "f", name |-> "echo", doc |-> StrV("Echo x."),
          params |-> <<Param("x", "str", Empty)>>, ret |-> "str"]

\* def echo(x, y: int = 7): return y          (no docstring, no return annotation)
EchoG == [id |-> "g", name |-> "echo", doc |-> NoneV,
          params |-> <<Param("x", "", Empty), Param("y", "int", IntV(7))>>, ret |-> ""]

\* def fail() -> str: """Always fails."""; raise ValueError("boom")
FailF == [id |-> "fail", name |-> "fail", doc |-> StrV("Always fails."),
          params |-> <<>>, ret |-> "str"]

\* def pair(x: str) -> Dict[str, Any]: """Pair x."""; return {"x": x}
PairF == [id |-> "pair", name |-> "pair", doc |-> StrV("Pair x."),
          params |-> <<Param("x", "str", Empty)>>, ret |-> "Dict[str, Any]"]

Funcs == {EchoF, EchoG, FailF, PairF}

\* The uses of the decorator: @mcp.tool(name=..., description=...) on a callable.
Registration(func, name, description) ==
    [func |-> func, name |-> name, description |-> description]

Registrations ==
    {Registration(EchoF, NoneV, NoneV),
     Registration(EchoG, NoneV, NoneV),
     Registration(FailF, NoneV, NoneV),
     Registration(EchoF, StrV("a"), NoneV),
     Registration(EchoG, StrV("a"), StrV("d")),
     Registration(FailF, StrV(""), StrV("d")),
     Registration(PairF, NoneV, NoneV)}

\* Keyword names and values of requests and direct calls, in the order written.
KeyOrder ==
    <<"x", "y", "name", "about_section", "job_posting",
      "resume_text", "job_description", "follow_up_answers">>
Keys == {KeyOrder[i] : i \in 1..Len(KeyOrder)}
Kwargs ==
    {[k \in {} |-> NoneV],
     [x |-> StrV("hi")],
     [x |-> IntV(3)],
     [y |-> IntV(3)],
     [x |-> StrV("hi"), y |-> IntV(3)],
     [x |-> StrV("hi"), y |-> StrV("hi")]}

\* Tool names and path segments requests are made with.
Names == {"echo", "fail", "a", "nonexistent"}
Prefixes == {"/tools", "/api"}

(***************************************************************************)
(* Calling a Python function with keyword arguments.                       *)
(***************************************************************************)
Outcome(ok, value, excType, msg) ==
    [ok |-> ok, value |-> value, excType |-> excType, msg |-> msg]
Return(v) == Outcome(TRUE, v, "", "")
Raise(t, m) == Outcome(FALSE, NoneV, t, m)

ParamNames(func) == {func.params[i].name : i \in 1..Len(func.params)}

\* The first keyword, in the order written, the signature does not have.
Unexpected(func, kwargs) ==
    {i \in 1..Len(KeyOrder) : KeyOrder[i] \in DOMAIN kwargs /\ KeyOrder[i] \notin ParamNames(func)}

\* The parameters without a default the call does not supply.
Missing(func, kwargs) ==
    {i \in 1..Len(func.params) :
        func.params[i].default = Empty /\ func.params[i].name \notin DOMAIN kwargs}

Min(S) == CHOOSE m \in S : \A k \in S : m <= k

\* The names of the missing parameters, in the order of the signature.
RECURSIVE MissingNames(_, _, _)
MissingNames(func, kwargs, i) ==
    IF i > Len(func.params) THEN <<>>
    ELSE (IF i \in Missing(func, kwargs) THEN <<func.params[i].name>> ELSE <<>>)
         \o MissingNames(func, kwargs, i + 1)

\* The interpreter's list of names: 'a' / 'a' and 'b' / 'a', 'b', and 'c'.
RECURSIVE QuotedList(_, _)
QuotedList(names, i) ==
    IF i = Len(names)
    THEN (IF Len(names) = 1 THEN "" ELSE IF Len(names) = 2 THEN " and " ELSE ", and ")
         \o "'" \o names[i] \o "'"
    ELSE (IF i = 1 THEN "" ELSE ", ") \o "'" \o names[i] \o "'"
         \o QuotedList(names, i + 1)

MissingMessage(func, kwargs) ==
    LET names == MissingNames(func, kwargs, 1)
    IN  func.name \o "() missing " \o ToString(Len(names))
        \o " required positional argument"
        \o (IF Len(names) = 1 THEN "" ELSE "s") \o ": " \o QuotedList(names, 1)

\* The arguments as the body sees them: defaults filled in.
BindArgs(func, kwargs) ==
    [p \in ParamNames(func) |->
        IF p \in DOMAIN kwargs THEN kwargs[p]
        ELSE LET i == CHOOSE j \in 1..Len(func.params) : func.params[j].name = p
             IN  func.params[i].default]

\* The function bodies.
Body(func, args) ==
    CASE func.id = "f" -> Return(args["x"])
      [] func.id = "g" -> Return(args["y"])
      [] func.id = "fail" -> Raise("ValueError", "boom")
      [] func.id \in {"task1", "task2", "task3", "task4_final"} ->
            Return(StrV("completion"))
      [] func.id = "task4_initial" -> Return([kind |-> "dict", s |-> "", n |-> 0])

\* func(**kwargs): the interpreter's argument check, then the body.
Call(func, kwargs) ==
    IF Unexpected(func, kwargs) # {}
    THEN Raise("TypeError", func.name \o "() got an unexpected keyword argument '"
                            \o KeyOrder[Min(Unexpected(func, kwargs))] \o "'")
    ELSE IF Missing(func, kwargs) # {}
    THEN Raise("TypeError", MissingMessage(func, kwargs))
    ELSE Body(func, BindArgs(func, kwargs))

\* One invocation of a callable: which one, and the keyword arguments it was given.
\* (A call the argument check rejects is an invocation too.)
Invocation(func, kwargs) == [func |-> func.id, kwargs |-> kwargs]

(***************************************************************************)
(* Insertion-ordered dict keyed by .name, as a sequence of entries.        *)
(***************************************************************************)
DictKeys(d) == [i \in 1..Len(d) |-> d[i].name]
KeySet(d) == {d[i].name : i \in 1..Len(d)}
Has(d, k) == k \in KeySet(d)
Get(d, k) == d[CHOOSE i \in 1..Len(d) : d[i].name = k]

\* Mutations of d[k] = v: a list append, and a setdefault that keeps the first entry.
DictSetAppend(d, k, v) == Append(d, v)
DictSetKeepFirst(d, k, v) == IF Has(d, k) THEN d ELSE Append(d, v)

\* Mutations of d[k] = v: the key is deleted first, so that an existing key moves
\* to the end; and the mapping is rebuilt with the new entry alone.
DictSetMoveToEnd(d, k, v) == Append(SelectSeq(d, LAMBDA t : t.name # k), v)
DictSetAlone(d, k, v) == <<v>>

\* d[k] = v : overwrite in place when k is a key, append otherwise.
DictSet(d, k, v) ==
    IF Has(d, k)
    THEN [i \in 1..Len(d) |-> IF d[i].name = k THEN v ELSE d[i]]
    ELSE Append(d, v)

(***************************************************************************)
(* FastMCP.tool(name, description)(func): what the decorator records.      *)
(***************************************************************************)
\* type_hints.get(name, Any)
TypeHint(ann) == IF ann = "" THEN "Any" ELSE ann

\* param.default is inspect.Parameter.empty
IsRequired(p) == p.default = Empty

\* param.default if param.default is not inspect.Parameter.empty else None
DefaultOf(p) == IF p.default # Empty THEN p.default ELSE NoneV

ParamInfo(p) ==
    [name |-> p.name, type |-> TypeHint(p.ann), required |-> IsRequired(p),
     default |-> DefaultOf(p), description |-> ""]

Parameters(func) == [i \in 1..Len(func.params) |-> ParamInfo(func.params[i])]

\* name or func.__name__
FuncName(func, name) == PyOr(name, StrV(func.name)).s

\* description or inspect.getdoc(func) or ""
FuncDesc(func, description) == PyOr(PyOr(description, func.doc), StrV("")).s

\* isinstance(t, type): the annotations that are classes.  typing.Any is one
\* (Python 3.11 and later); a subscripted generic such as Dict[str, Any] is not.
IsClass(t) == t \in {"str", "int", "float", "bool", "list", "dict", "Any"}

\* The fields of ToolMetadata(...) that fail validation: `return_type: Type`
\* accepts classes only; `parameters: Dict[str, Any]` accepts any type in it.
ToolMetadataErrors(func) ==
    IF IsClass(TypeHint(func.ret)) THEN {} ELSE {"return_type"}

ToolMetadata(func, name, description) ==
    [name |-> FuncName(func, name),
     description |-> FuncDesc(func, description),
     function |-> func,
     parameters |-> Parameters(func),
     return_type |-> TypeHint(func.ret)]

(***************************************************************************)
(* FastMCP.list_tools, get_tool_info, execute_tool.                        *)
(***************************************************************************)
list_tools(d) == DictKeys(d)

\* str(<type>)
TypeStr(t) ==
    CASE t = "str" -> "<class 'str'>"
      [] t = "int" -> "<class 'int'>"
      [] t = "Any" -> "typing.Any"
      [] t = "dict" -> "<class 'dict'>"

InfoOf(tool) ==
    [name |-> tool.name,
     description |-> tool.description,
     parameters |-> [i \in 1..Len(tool.parameters) |->
                        [name |-> tool.parameters[i].name,
                         type |-> TypeStr(tool.parameters[i].type),
                         required |-> tool.parameters[i].required,
                         default |-> tool.parameters[i].default,
                         description |-> tool.parameters[i].description]],
     return_type |-> TypeStr(tool.return_type)]

\* Mutation of get_tool_info: a tool without parameters is reported as absent
\* (`if not tool.parameters: return None`).
get_tool_info_EmptyIsAbsent(d, tool_name) ==
    IF ~Has(d, tool_name) \/ Get(d, tool_name).parameters = <<>>
    THEN <<>>
    ELSE <<InfoOf(Get(d, tool_name))>>

\* Optional[Dict]: <<>> is None, <<info>> is the projection.
get_tool_info(d, tool_name) ==
    IF ~Has(d, tool_name) THEN <<>> ELSE <<InfoOf(Get(d, tool_name))>>

\* Mutation of execute_tool: a miss returns None (`self.tools.get(tool_name)`).
execute_tool_MissIsNone(d, tool_name, kwargs) ==
    IF ~Has(d, tool_name)
    THEN [res |-> Return(NoneV), invoked |-> <<>>]
    ELSE LET func == Get(d, tool_name).function
         IN  [res |-> Call(func, kwargs), invoked |-> <<Invocation(func, kwargs)>>]

\* Mutation of execute_tool: a failure of the callable is wrapped in a RuntimeError.
execute_tool_Wrapped(d, tool_name, kwargs) ==
    IF ~Has(d, tool_name)
    THEN [res |-> Raise("ValueError", "Tool not found: " \o tool_name), invoked |-> <<>>]
    ELSE LET func == Get(d, tool_name).function
             res == Call(func, kwargs)
         IN  [res |-> IF res.ok THEN res
                      ELSE Raise("RuntimeError", "Tool failed: " \o res.msg),
              invoked |-> <<Invocation(func, kwargs)>>]

\* The outcome of execute_tool and the callables it invoked.
execute_tool(d, tool_name, kwargs) ==
    IF ~Has(d, tool_name)
    THEN [res |-> Raise("ValueError", "Tool not found: " \o tool_name), invoked |-> <<>>]
    ELSE LET func == Get(d, tool_name).function
         IN  [res |-> Call(func, kwargs), invoked |-> <<Invocation(func, kwargs)>>]

(***************************************************************************)
(* FastMCP.generate_openapi_schema.  A path item carries its key in the    *)
(* paths dict as `name`; a property carries its key in the properties dict *)
(* as `name`, and its "default" entry as a sequence that is empty when the *)
(* key is not set.  The summary and the constant "responses" part of an    *)
(* operation are left out.                                                 *)
(***************************************************************************)
OpenApiType(t) ==
    CASE t = "int" -> "integer"
      [] t = "float" -> "number"
      [] t = "bool" -> "boolean"
      [] t = "list" \/ t = "List" -> "array"
      [] t = "dict" \/ t = "Dict" -> "object"
      [] OTHER -> "string"

EmptyRequestBody ==
    [schema |-> [type |-> "object", properties |-> <<>>, required |-> <<>>],
     required |-> FALSE]

Property(param_info) ==
    [name |-> param_info.name,
     type |-> OpenApiType(param_info.type),
     description |-> param_info.description,
     default |-> IF param_info.default # NoneV THEN <<param_info.default>> ELSE <<>>]

\* Mutation of the loop body: every parameter is appended to the required list.
SchemaParamAllRequired(request_body, param_info) ==
    [request_body EXCEPT
        !.schema.required = Append(@, param_info.name),
        !.required = TRUE,
        !.schema.properties = DictSet(@, param_info.name, Property(param_info))]

\* One iteration of `for param_name, param_info in tool.parameters.items()`.
SchemaParam(request_body, param_info) ==
    LET marked == IF param_info.required
                  THEN [request_body EXCEPT
                           !.schema.required = Append(@, param_info.name),
                           !.required = TRUE]
                  ELSE request_body
    IN  [marked EXCEPT
            !.schema.properties = DictSet(@, param_info.name, Property(param_info))]

RECURSIVE SchemaRequestBody(_, _)
SchemaRequestBody(parameters, n) ==
    IF n = 0
    THEN EmptyRequestBody
    ELSE SchemaParam(SchemaRequestBody(parameters, n - 1), parameters[n])

PathItem(tool) ==
    [name |-> "/tools/" \o tool.name,
     post |-> [operationId |-> tool.name,
               description |-> tool.description,
               requestBody |-> SchemaRequestBody(tool.parameters, Len(tool.parameters))]]

RECURSIVE SchemaPaths(_, _)
SchemaPaths(d, n) ==
    IF n = 0
    THEN <<>>
    ELSE DictSet(SchemaPaths(d, n - 1), PathItem(d[n]).name, PathItem(d[n]))

generate_openapi_schema(d) ==
    [openapi |-> "3.0.0", paths |-> SchemaPaths(d, Len(d))]

(***************************************************************************)
(* What the read methods leave in self.tools: each of them reads the       *)
(* mapping and the descriptors and assigns to neither.                     *)
(***************************************************************************)
\* Mutation of execute_tool: the descriptor is taken out of the mapping
\* (`tool = self.tools.pop(tool_name)`).
ToolsAfterExecutePopped(d, tool_name) == SelectSeq(d, LAMBDA t : t.name # tool_name)

\* self.tools after execute_tool(tool_name, ...)
ToolsAfterExecute(d, tool_name) == d

\* Mutation of get_tool_info: the types are turned into strings in the
\* descriptor itself (`param_info["type"] = str(param_info["type"])`).
ToolsAfterGetToolInfoInPlace(d, tool_name) ==
    [i \in 1..Len(d) |->
        IF d[i].name = tool_name
        THEN [d[i] EXCEPT !.parameters =
                 [j \in 1..Len(@) |-> [@[j] EXCEPT !.type = TypeStr(@)]]]
        ELSE d[i]]

\* self.tools after get_tool_info(tool_name)
ToolsAfterGetToolInfo(d, tool_name) == d

\* self.tools after list_tools()
ToolsAfterListTools(d) == d

\* self.tools after generate_openapi_schema()
ToolsAfterSchema(d) == d

(***************************************************************************)
(* register_mcp_tools: the request model of a tool and the routes.         *)
(***************************************************************************)
\* Mutation of the field definition: the recorded default is used for every field,
\* so that no field is mandatory.
FieldDefNoEllipsis(param_info) ==
    [name |-> param_info.name, type |-> param_info.type, default |-> param_info.default]

\* default = param_info["default"] if not param_info["required"] else ...
FieldDef(param_info) ==
    [name |-> param_info.name, type |-> param_info.type,
     default |-> IF ~param_info.required THEN param_info.default ELSE Ellipsis]

\* create_model(model_name, **field_definitions)
RequestModel(tool_metadata) ==
    [i \in 1..Len(tool_metadata.parameters) |-> FieldDef(tool_metadata.parameters[i])]

\* Mutation of the binding: the endpoint reads the loop variable when it runs, which
\* by then names the last tool of the loop.
BoundToolLate(d, i) == d[Len(d)].name

\* The tool name create_endpoint(tool_name) closes over, for the i-th tool of the loop.
BoundTool(d, i) == d[i].name

\* The model the endpoint's `request` annotation names, for the i-th tool of the loop.
BoundModel(d, i) == RequestModel(d[i])

InfoSeg == "{tool_name}"

PostRoute(prefix, d, i) ==
    [method |-> "POST", prefix |-> prefix, seg |-> d[i].name, kind |-> "tool",
     tool |-> BoundTool(d, i), fields |-> BoundModel(d, i), doc |-> d[i].description]

ListRoute(prefix) ==
    [method |-> "GET", prefix |-> prefix, seg |-> "", kind |-> "list",
     tool |-> "", fields |-> <<>>, doc |-> ""]

InfoRoute(prefix) ==
    [method |-> "GET", prefix |-> prefix, seg |-> InfoSeg, kind |-> "info",
     tool |-> "", fields |-> <<>>, doc |-> ""]

register_mcp_tools(rs, d, prefix) ==
    rs \o [i \in 1..Len(d) |-> PostRoute(prefix, d, i)]
       \o <<ListRoute(prefix), InfoRoute(prefix)>>

(***************************************************************************)
(* Request validation against the generated model (pydantic), and          *)
(* request.dict().                                                         *)
(***************************************************************************)
\* Whether a JSON value is accepted for a field of the type.  A JSON number is not
\* taken for a str field, and the strings of the model are no numerals, so that none
\* is taken for an int field; Any takes every value.
Conforms(type, v) ==
    CASE type = "Any" -> TRUE
      [] type = "str" -> v.kind = "str"
      [] type = "int" -> v.kind = "int"

\* Mutation of the validation: only presence is checked, not the type.
ValidationErrorsPresenceOnly(fields, payload) ==
    {i \in 1..Len(fields) :
        fields[i].name \notin DOMAIN payload /\ fields[i].default = Ellipsis}

\* The fields the payload fails on: a mandatory field (default ...) it omits, or a
\* value that is not of the field's type.  Keys that are no field are ignored.
ValidationErrors(fields, payload) ==
    {i \in 1..Len(fields) :
        IF fields[i].name \in DOMAIN payload
        THEN ~Conforms(fields[i].type, payload[fields[i].name])
        ELSE fields[i].default = Ellipsis}

\* request.dict(): every field of the model, omitted ones at their default.
RequestDict(fields, payload) ==
    [k \in {fields[i].name : i \in 1..Len(fields)} |->
        IF k \in DOMAIN payload THEN payload[k]
        ELSE LET i == CHOOSE j \in 1..Len(fields) : fields[j].name = k
             IN  fields[i].default]

(***************************************************************************)
(* Responses.                                                              *)
(***************************************************************************)
Response(status, kind, value, detail, names, info) ==
    [status |-> status, kind |-> kind, value |-> value, detail |-> detail,
     names |-> names, info |-> info, excType |-> ""]

\* An exception that leaves the handler as it was raised.
Escapes(exc) ==
    [status |-> 500, kind |-> "raw", value |-> NoneV, detail |-> exc.msg,
     names |-> <<>>, info |-> <<>>, excType |-> exc.excType]

\* Mutation of the handler: no try/except around execute_tool.
HandleOutcomeNoCatch(res) ==
    IF res.ok THEN Response(200, "result", res.value, "", <<>>, <<>>) ELSE Escapes(res)

\* try: ... return {"result": result}
\* except Exception as e: raise HTTPException(status_code=500, detail=str(e))
HandleOutcome(res) ==
    IF res.ok
    THEN Response(200, "result", res.value, "", <<>>, <<>>)
    ELSE Response(500, "error", NoneV, res.msg, <<>>, <<>>)

\* Mutation of the endpoint: a failed execution is tried once more.
EndpointRetryOnce(route, d, payload) ==
    IF ValidationErrors(route.fields, payload) # {}
    THEN [resp |-> Response(422, "validation", NoneV, "", <<>>, <<>>), invoked |-> <<>>,
          tools |-> d]
    ELSE LET kwargs == RequestDict(route.fields, payload)
             first == execute_tool(d, route.tool, kwargs)
             second == execute_tool(d, route.tool, kwargs)
         IN  IF first.res.ok
             THEN [resp |-> HandleOutcome(first.res), invoked |-> first.invoked,
                   tools |-> ToolsAfterExecute(d, route.tool)]
             ELSE [resp |-> HandleOutcome(second.res),
                   invoked |-> first.invoked \o second.invoked,
                   tools |-> ToolsAfterExecute(d, route.tool)]

\* The POST endpoint of one route: the response, the callables invoked and
\* the registry after the request.
Endpoint(route, d, payload) ==
    IF ValidationErrors(route.fields, payload) # {}
    THEN [resp |-> Response(422, "validation", NoneV, "", <<>>, <<>>), invoked |-> <<>>,
          tools |-> d]
    ELSE LET ex == execute_tool(d, route.tool, RequestDict(route.fields, payload))
         IN  [resp |-> HandleOutcome(ex.res), invoked |-> ex.invoked,
              tools |-> ToolsAfterExecute(d, route.tool)]

\* Mutation of the list endpoint: the names are those of the tools that have
\* parameters (`[n for n, t in tools.items() if t.parameters]`).
ListEndpointParameterised(d) ==
    Response(200, "list", NoneV, "", list_tools(SelectSeq(d, LAMBDA t : t.parameters # <<>>)), <<>>)

\* GET <prefix>/ : {"tools": mcp_instance.list_tools()}
ListEndpoint(d) == Response(200, "list", NoneV, "", list_tools(d), <<>>)

\* Mutation of the info endpoint: the result of get_tool_info is returned unchecked.
InfoEndpointUnchecked(d, tool_name) ==
    Response(200, "info", NoneV, "", <<>>, get_tool_info(d, tool_name))

\* GET <prefix>/{tool_name}
InfoEndpoint(d, tool_name) ==
    LET info == get_tool_info(d, tool_name)
    IN  IF info = <<>>
        THEN Response(404, "error", NoneV, "Tool not found: " \o tool_name, <<>>, <<>>)
        ELSE Response(200, "info", NoneV, "", <<>>, info)

(***************************************************************************)
(* Routing: the first route whose method and path match handles the        *)
(* request; a path that matches under another method only is 405; no       *)
(* match is 404.                                                           *)
(***************************************************************************)
PathMatches(r, prefix, seg) ==
    /\ r.prefix = prefix
    /\ IF r.seg = InfoSeg THEN seg # "" ELSE r.seg = seg

FullMatches(rs, method, prefix, seg) ==
    {i \in 1..Len(rs) : rs[i].method = method /\ PathMatches(rs[i], prefix, seg)}

PartialMatches(rs, prefix, seg) ==
    {i \in 1..Len(rs) : PathMatches(rs[i], prefix, seg)}

\* The response to a request, the callables it invoked and the registry after it.
Serve(rs, d, method, prefix, seg, payload) ==
    IF FullMatches(rs, method, prefix, seg) # {}
    THEN LET r == rs[Min(FullMatches(rs, method, prefix, seg))]
         IN  CASE r.kind = "tool" -> Endpoint(r, d, payload)
               [] r.kind = "list" -> [resp |-> ListEndpoint(d), invoked |-> <<>>,
                                      tools |-> ToolsAfterListTools(d)]
               [] r.kind = "info" -> [resp |-> InfoEndpoint(d, seg), invoked |-> <<>>,
                                      tools |-> ToolsAfterGetToolInfo(d, seg)]
    ELSE IF PartialMatches(rs, prefix, seg) # {}
    THEN [resp |-> Response(405, "error", NoneV, "Method Not Allowed", <<>>, <<>>),
          invoked |-> <<>>, tools |-> d]
    ELSE [resp |-> Response(404, "error", NoneV, "Not Found", <<>>, <<>>),
          invoked |-> <<>>, tools |-> d]

(***************************************************************************)
(* The state machine.                                                      *)
(***************************************************************************)
NoKwargs == [k \in {} |-> NoneV]

Op(op, prefix, name, args, resp) ==
    [op |-> op, prefix |-> prefix, name |-> name, args |-> args, resp |-> resp]

NoResponse == Response(0, "none", NoneV, "", <<>>, <<>>)

\* One caller: an operation starts when the one before it has returned.
Idle == out.op \in {"init", "register", "import", "bind", "idle"}

\* Nothing of the application: no other registry, no database, no frontend session.
NoApp ==
    /\ others = <<>>
    /\ store = <<>>
    /\ factory = ""
    /\ session = <<>>

\* FastMCP("...") and a fresh application.
Init ==
    /\ tools = <<>>
    /\ routes = <<>>
    /\ bound = FALSE
    /\ out = Op("init", "", "", NoKwargs, NoResponse)
    /\ invoked = <<>>
    /\ latest = [k \in {} |-> NoneV]
    /\ replaced = [name |-> "", func |-> ""]
    /\ binding = [prefix |-> "", regs |-> [k \in {} |-> NoneV]]
    /\ nRegs = 0
    /\ order = <<>>
    /\ reqs = <<>>
    /\ running = 0
    /\ content = <<>>
    /\ message = <<>>
    /\ NoApp

\* @mcp.tool(name, description) applied to func.  When the construction of the
\* descriptor raises, the decorator raises before it assigns to self.tools.
Register(func, name, description) ==
    /\ Idle
    /\ nRegs < MaxRegs
    /\ LET meta == ToolMetadata(func, name, description)
           key == PyOr(name, StrV(func.name)).s
       IN  IF ToolMetadataErrors(func) = {}
           THEN /\ tools' = DictSet(tools, meta.name, meta)
                /\ latest' = [k \in DOMAIN latest \cup {key} |->
                                 IF k = key
                                 THEN Registration(func, name, description)
                                 ELSE latest[k]]
                /\ replaced' = IF key \in DOMAIN latest /\ latest[key].func # func
                               THEN [name |-> key, func |-> latest[key].func.id]
                               ELSE replaced
                /\ order' = IF key \in DOMAIN latest THEN order ELSE Append(order, key)
                /\ out' = Op("register", "", key, NoKwargs, NoResponse)
           ELSE /\ out' = Op("register", "", key, NoKwargs,
                             [Response(0, "raise", NoneV, "return_type", <<>>, <<>>)
                                 EXCEPT !.excType = "ValidationError"])
                /\ UNCHANGED <<tools, latest, replaced, order>>
    /\ nRegs' = nRegs + 1
    /\ invoked' = <<>>
    /\ UNCHANGED <<routes, bound, binding, loopVars, textVars, appVars>>

\* register_mcp_tools(app, mcp, prefix), once per application.
Bind(prefix) ==
    /\ Idle
    /\ ~bound
    /\ routes' = register_mcp_tools(routes, tools, prefix)
    /\ bound' = TRUE
    /\ binding' = [prefix |-> prefix, regs |-> latest]
    /\ out' = Op("bind", prefix, "", NoKwargs, NoResponse)
    /\ invoked' = <<>>
    /\ UNCHANGED <<tools, latest, replaced, nRegs, order, loopVars, textVars, appVars>>

\* mcp.execute_tool(name, **kwargs), called directly.
CallExecute(name, kwargs) ==
    /\ Idle
    /\ LET ex == execute_tool(tools, name, kwargs)
       IN  /\ out' = Op("execute_tool", "", name, kwargs,
                        IF ex.res.ok
                        THEN Response(0, "return", ex.res.value, "", <<>>, <<>>)
                        ELSE [Response(0, "raise", NoneV, ex.res.msg, <<>>, <<>>)
                                EXCEPT !.excType = ex.res.excType])
           /\ invoked' = ex.invoked
    /\ tools' = ToolsAfterExecute(tools, name)
    /\ UNCHANGED <<routes, bound, hist, loopVars, textVars, appVars>>

\* mcp.get_tool_info(name), called directly.
CallGetToolInfo(name) ==
    /\ Idle
    /\ LET info == get_tool_info(tools, name)
       IN  out' = Op("get_tool_info", "", name, NoKwargs,
                     Response(0, IF info = <<>> THEN "absent" ELSE "return",
                              NoneV, "", <<>>, info))
    /\ invoked' = <<>>
    /\ tools' = ToolsAfterGetToolInfo(tools, name)
    /\ UNCHANGED <<routes, bound, hist, loopVars, textVars, appVars>>

\* mcp.list_tools(), called directly.
CallListTools ==
    /\ Idle
    /\ out' = Op("list_tools", "", "", NoKwargs,
                 Response(0, "return", NoneV, "", list_tools(tools), <<>>))
    /\ invoked' = <<>>
    /\ tools' = ToolsAfterListTools(tools)
    /\ UNCHANGED <<routes, bound, hist, loopVars, textVars, appVars>>

\* mcp.generate_openapi_schema(), called directly.
CallGenerateSchema ==
    /\ Idle
    /\ out' = Op("generate_openapi_schema", "", "", NoKwargs,
                 Response(0, "return", NoneV, "", <<>>, <<generate_openapi_schema(tools)>>))
    /\ invoked' = <<>>
    /\ tools' = ToolsAfterSchema(tools)
    /\ UNCHANGED <<routes, bound, hist, loopVars, textVars, appVars>>

\* POST <prefix>/<seg> with a JSON object.
HttpPost(prefix, seg, payload) ==
    /\ Idle
    /\ LET served == Serve(routes, tools, "POST", prefix, seg, payload)
       IN  /\ out' = Op("POST", prefix, seg, payload, served.resp)
           /\ invoked' = served.invoked
           /\ tools' = served.tools
    /\ UNCHANGED <<routes, bound, hist, loopVars, textVars, appVars>>

\* GET <prefix>/<seg>.
HttpGet(prefix, seg) ==
    /\ Idle
    /\ LET served == Serve(routes, tools, "GET", prefix, seg, NoKwargs)
       IN  /\ out' = Op("GET", prefix, seg, NoKwargs, served.resp)
           /\ invoked' = served.invoked
           /\ tools' = served.tools
    /\ UNCHANGED <<routes, bound, hist, loopVars, textVars, appVars>>

\* The caller has taken the outcome of its call or request.
Returned ==
    /\ ~Idle
    /\ out' = Op("idle", "", "", NoKwargs, NoResponse)
    /\ invoked' = <<>>
    /\ UNCHANGED <<tools, routes, bound, hist, loopVars, textVars, appVars>>

Next ==
    \/ \E r \in Registrations : Register(r.func, r.name, r.description)
    \/ \E prefix \in Prefixes : Bind(prefix)
    \/ \E name \in Names, kwargs \in Kwargs : CallExecute(name, kwargs)
    \/ \E name \in Names : CallGetToolInfo(name)
    \/ CallListTools
    \/ CallGenerateSchema
    \/ \E prefix \in Prefixes, seg \in Names, payload \in Kwargs :
          HttpPost(prefix, seg, payload)
    \/ \E prefix \in Prefixes, seg \in Names \cup {""} : HttpGet(prefix, seg)
    \/ Returned

Spec == Init /\ [][Next]_vars

(***************************************************************************)
(* Properties.  They are stated against the history variables: what was    *)
(* registered and bound, as the caller knows it, independently of what the *)
(* registry and the routes hold.                                           *)
(***************************************************************************)
Registered(n) == n \in DOMAIN latest
LatestFunc(n) == latest[n].func

\* How often a name occurs in a list of names.
Occurrences(l, n) == Cardinality({i \in 1..Len(l) : l[i] = n})

\* The projection a registration is described by.
InfoOfRegistration(r) == InfoOf(ToolMetadata(r.func, r.name, r.description))

\* C1: after any sequence of registrations, list_tools() holds every name registered
\* so far, and each exactly once, also a name registered two or more times.
C1_ListedExactlyOnce ==
    /\ \A n \in DOMAIN latest : Occurrences(list_tools(tools), n) = 1
    /\ out.op = "list_tools" =>
          \A n \in DOMAIN latest : Occurrences(out.resp.names, n) = 1

\* list_tools() was called after three registrations, one of them under a name
\* that was registered before.
C1_Witness ==
    /\ out.op = "list_tools"
    /\ nRegs = 3
    /\ Cardinality(DOMAIN latest) = 2
    /\ Len(out.resp.names) = 2

\* C2: re-registration replaces the descriptor: execute_tool(name) invokes the
\* callable registered last under the name, never an earlier one, and
\* get_tool_info(name) is the projection of the last registration alone.
C2_LastRegistrationWins ==
    /\ (out.op = "execute_tool" /\ Registered(out.name)) =>
          /\ Len(invoked) = 1
          /\ invoked[1].func = LatestFunc(out.name).id
          /\ replaced.name = out.name => invoked[1].func # replaced.func
    /\ (out.op = "get_tool_info" /\ Registered(out.name)) =>
          out.resp.info = <<InfoOfRegistration(latest[out.name])>>

\* execute_tool("echo") ran after echo was registered as f and then again as g.
C2_Witness ==
    /\ out.op = "execute_tool"
    /\ out.name = "echo"
    /\ Registered("echo")
    /\ LatestFunc("echo").id = "g"
    /\ replaced = [name |-> "echo", func |-> "f"]
    /\ Len(invoked) = 1
    /\ invoked[1].func = "g"

\* C3: execute_tool(name) for a name that is not registered fails with the
\* not-found error "Tool not found: <name>", invokes no callable, and leaves the
\* registry unchanged.
C3_ExecuteUnknownFails ==
    /\ []((out.op = "execute_tool" /\ ~Registered(out.name)) =>
            /\ out.resp.kind = "raise"
            /\ out.resp.excType = "ValueError"
            /\ out.resp.detail = "Tool not found: " \o out.name
            /\ invoked = <<>>)
    /\ [][(out'.op = "execute_tool" /\ ~Registered(out'.name)) => tools' = tools]_vars

\* execute_tool("nonexistent") was called on a registry that holds tools.
C3_Witness ==
    /\ out.op = "execute_tool"
    /\ out.name = "nonexistent"
    /\ out.resp.detail = "Tool not found: nonexistent"
    /\ Len(tools) >= 2

\* C4: get_tool_info(name) returns the absent value for a name that is not
\* registered and never raises; for a registered name it returns a projection,
\* also when the tool has no parameters.
C4_InfoAbsentOrProjection ==
    out.op = "get_tool_info" =>
        /\ out.resp.kind \in {"absent", "return"}
        /\ ~Registered(out.name) => (out.resp.kind = "absent" /\ out.resp.info = <<>>)
        /\ Registered(out.name) =>
              /\ out.resp.kind = "return"
              /\ Len(out.resp.info) = 1
              /\ out.resp.info[1].name = out.name

\* get_tool_info was called for a registered tool that has no parameters.
C4_Witness ==
    /\ out.op = "get_tool_info"
    /\ Registered(out.name)
    /\ LatestFunc(out.name).params = <<>>
    /\ out.resp.kind = "return"
    /\ out.resp.info[1].parameters = <<>>

\* C5: for a registered name, execute_tool(name, **kwargs) invokes the stored
\* callable exactly once with exactly the given keyword arguments and returns its
\* result unmodified; an exception of the callable propagates unchanged.
C5_ExecutePassesThrough ==
    (out.op = "execute_tool" /\ Registered(out.name)) =>
        LET r == Call(LatestFunc(out.name), out.args)
        IN  /\ invoked = <<[func |-> LatestFunc(out.name).id, kwargs |-> out.args]>>
            /\ r.ok => (out.resp.kind = "return" /\ out.resp.value = r.value)
            /\ ~r.ok => /\ out.resp.kind = "raise"
                        /\ out.resp.excType = r.excType
                        /\ out.resp.detail = r.msg

\* execute_tool ran a callable whose body raised ValueError("boom").
C5_Witness ==
    /\ out.op = "execute_tool"
    /\ Registered(out.name)
    /\ LatestFunc(out.name).id = "fail"
    /\ out.args = NoKwargs
    /\ out.resp.kind = "raise"
    /\ out.resp.excType = "ValueError"
    /\ out.resp.detail = "boom"

(***************************************************************************)
(* Properties of the HTTP surface.  A request's validity is stated against *)
(* the signature of the callable that was bound, not against the generated *)
(* model.                                                                  *)
(***************************************************************************)
\* <prefix>/<seg> is the POST route of a tool that was registered when the binder ran.
BoundPath(prefix, seg) ==
    bound /\ binding.prefix = prefix /\ seg \in DOMAIN binding.regs
BoundFunc(seg) == binding.regs[seg].func

\* The payload omits a parameter that has no default.
OmitsRequired(func, payload) ==
    \E i \in 1..Len(func.params) :
        func.params[i].default = Empty /\ func.params[i].name \notin DOMAIN payload

\* The payload gives an annotated parameter a value of another type.
WrongType(func, payload) ==
    \E i \in 1..Len(func.params) :
        /\ func.params[i].name \in DOMAIN payload
        /\ func.params[i].ann # ""
        /\ payload[func.params[i].name].kind # func.params[i].ann

Malformed(func, payload) == OmitsRequired(func, payload) \/ WrongType(func, payload)

\* The keyword arguments a well-formed payload stands for: one per parameter, the
\* parameter's own default where the payload omits it.
ExpectedKwargs(func, payload) ==
    [k \in {func.params[i].name : i \in 1..Len(func.params)} |->
        IF k \in DOMAIN payload THEN payload[k]
        ELSE (CHOOSE q \in {func.params[i] : i \in 1..Len(func.params)} : q.name = k).default]

ToolRoutes == {i \in 1..Len(routes) : routes[i].kind = "tool"}

\* C6: the POST handler of a bound tool answers 200 {"result": <return value>} when
\* execute succeeds and 500 with the failure's message as detail when it raises;
\* the raw exception never leaves the handler.
C6_PostResultOr500 ==
    out.op = "POST" =>
        /\ out.resp.kind # "raw"
        /\ (BoundPath(out.prefix, out.name) /\ ~Malformed(BoundFunc(out.name), out.args)) =>
              LET r == Call(LatestFunc(out.name),
                            ExpectedKwargs(BoundFunc(out.name), out.args))
              IN  /\ r.ok => /\ out.resp.status = 200
                             /\ out.resp.kind = "result"
                             /\ out.resp.value = r.value
                  /\ ~r.ok => /\ out.resp.status = 500
                              /\ out.resp.kind = "error"
                              /\ out.resp.detail = r.msg

\* POST {} to the route of fail(), whose body raises ValueError("boom").
C6_Witness ==
    /\ out.op = "POST"
    /\ BoundPath(out.prefix, out.name)
    /\ LatestFunc(out.name).id = "fail"
    /\ out.args = NoKwargs
    /\ invoked = <<[func |-> "fail", kwargs |-> NoKwargs]>>
    /\ out.resp.status = 500
    /\ out.resp.detail = "boom"

\* C7: binding N tools yields N POST handlers, one per tool, each bound to its own
\* name and its own request schema: a POST to <prefix>/t is validated against t's
\* signature and executes t, never another tool.
C7_OneHandlerPerTool ==
    /\ bound =>
          /\ Cardinality(ToolRoutes) = Cardinality(DOMAIN binding.regs)
          /\ \A n \in DOMAIN binding.regs :
                Cardinality({i \in ToolRoutes :
                    routes[i].prefix = binding.prefix /\ routes[i].seg = n}) = 1
    /\ (out.op = "POST" /\ BoundPath(out.prefix, out.name)) =>
          IF Malformed(BoundFunc(out.name), out.args)
          THEN out.resp.status = 422 /\ invoked = <<>>
          ELSE /\ out.resp.status # 422
               /\ invoked = <<[func |-> LatestFunc(out.name).id,
                               kwargs |-> ExpectedKwargs(BoundFunc(out.name), out.args)]>>

\* Three tools are bound and a POST to the first of them, whose callable is not the
\* last tool's, was executed.
C7_Witness ==
    /\ out.op = "POST"
    /\ BoundPath(out.prefix, out.name)
    /\ Cardinality(ToolRoutes) = 3
    /\ out.name = routes[1].seg
    /\ LatestFunc(out.name).id # LatestFunc(routes[3].seg).id
    /\ out.resp.status = 200
    /\ Len(invoked) = 1

\* C8: a parameter is recorded required iff it has no default; the generated schema
\* makes exactly those fields mandatory; a request omitting one of them fails
\* validation, and a request omitting a parameter with a default passes with the
\* field at the default recorded at registration, which is passed to the tool.
C8_RequiredIffNoDefault ==
    /\ \A i \in 1..Len(tools) :
          Registered(tools[i].name) =>
              LET f == LatestFunc(tools[i].name)
              IN  /\ Len(tools[i].parameters) = Len(f.params)
                  /\ \A j \in 1..Len(f.params) :
                        /\ tools[i].parameters[j].name = f.params[j].name
                        /\ tools[i].parameters[j].required = (f.params[j].default = Empty)
    /\ \A i \in ToolRoutes :
          routes[i].seg \in DOMAIN binding.regs =>
              LET f == BoundFunc(routes[i].seg)
              IN  /\ Len(routes[i].fields) = Len(f.params)
                  /\ \A j \in 1..Len(f.params) :
                        /\ routes[i].fields[j].name = f.params[j].name
                        /\ (routes[i].fields[j].default = Ellipsis) = (f.params[j].default = Empty)
                        /\ f.params[j].default # Empty =>
                              routes[i].fields[j].default = f.params[j].default
    /\ (out.op = "POST" /\ BoundPath(out.prefix, out.name)) =>
          LET f == BoundFunc(out.name)
          IN  /\ OmitsRequired(f, out.args) => (out.resp.status = 422 /\ invoked = <<>>)
              /\ ~Malformed(f, out.args) =>
                    /\ out.resp.status # 422
                    /\ Len(invoked) = 1
                    /\ \A j \in 1..Len(f.params) :
                          (f.params[j].default # Empty /\ f.params[j].name \notin DOMAIN out.args)
                              => invoked[1].kwargs[f.params[j].name] = f.params[j].default

\* POST {"x": "hi"} to the route of echo(x, y: int = 7): y is omitted, the call is
\* made with y = 7 and returns it.
C8_Witness ==
    /\ out.op = "POST"
    /\ BoundPath(out.prefix, out.name)
    /\ BoundFunc(out.name).id = "g"
    /\ out.args = [x |-> StrV("hi")]
    /\ Len(invoked) = 1
    /\ invoked[1].kwargs = [x |-> StrV("hi"), y |-> IntV(7)]
    /\ out.resp.status = 200
    /\ out.resp.value = IntV(7)

\* C9: a POST whose payload fails validation (a missing required field or a wrong
\* type) is answered 422 before the handler body runs: neither execute_tool nor the
\* callable is invoked.
C9_MalformedNeverExecutes ==
    (out.op = "POST" /\ BoundPath(out.prefix, out.name)
        /\ Malformed(BoundFunc(out.name), out.args)) =>
            /\ out.resp.status = 422
            /\ out.resp.kind = "validation"
            /\ invoked = <<>>

\* POST {"x": "hi", "y": "hi"} to the route of echo(x, y: int = 7): every required
\* field is present, but y is of the wrong type.
C9_Witness ==
    /\ out.op = "POST"
    /\ BoundPath(out.prefix, out.name)
    /\ BoundFunc(out.name).id = "g"
    /\ out.args = [x |-> StrV("hi"), y |-> StrV("hi")]
    /\ out.resp.status = 422
    /\ invoked = <<>>

\* C10: GET <prefix>/<toolName> returns the get_tool_info projection when the name
\* is registered and 404 with detail "Tool not found: <name>" when it is not; there
\* is no other outcome.
C10_GetInfoOr404 ==
    (out.op = "GET" /\ out.name # "" /\ bound /\ binding.prefix = out.prefix) =>
        IF Registered(out.name)
        THEN /\ out.resp.status = 200
             /\ out.resp.kind = "info"
             /\ out.resp.info = <<InfoOfRegistration(latest[out.name])>>
        ELSE /\ out.resp.status = 404
             /\ out.resp.kind = "error"
             /\ out.resp.detail = "Tool not found: " \o out.name
             /\ out.resp.info = <<>>

\* GET <prefix>/nonexistent on a bound registry that holds tools.
C10_Witness ==
    /\ out.op = "GET"
    /\ out.name = "nonexistent"
    /\ bound
    /\ binding.prefix = out.prefix
    /\ Len(tools) >= 1
    /\ out.resp.status = 404
    /\ out.resp.detail = "Tool not found: nonexistent"

(***************************************************************************)
(* C11.  A GET of the bound prefix's root answers 200 with the list of     *)
(* tool names, and that list holds exactly the names registered in the     *)
(* registry when the request is made, each once: names registered after    *)
(* the binding are listed too.                                             *)
(***************************************************************************)
C11_ListEndpointListsRegistry ==
    (out.op = "GET" /\ bound /\ out.prefix = binding.prefix /\ out.name = "")
        => /\ out.resp.status = 200
           /\ out.resp.kind = "list"
           /\ {out.resp.names[i] : i \in 1..Len(out.resp.names)} = DOMAIN latest
           /\ Len(out.resp.names) = Cardinality(DOMAIN latest)

\* The list is requested when a tool without parameters was registered after
\* the binding, next to one registered before it.
C11_Witness ==
    /\ out.op = "GET" /\ bound /\ out.prefix = binding.prefix /\ out.name = ""
    /\ DOMAIN binding.regs # {}
    /\ "fail" \in DOMAIN latest \ DOMAIN binding.regs
    /\ Len(out.resp.names) = 2

(***************************************************************************)
(* C12.  Requests and reads leave the registry as it is: a step that       *)
(* handles a POST or a GET, or that calls execute_tool, list_tools,        *)
(* get_tool_info or generate_openapi_schema, ends with the mapping and     *)
(* every descriptor in it equal to what they were before the step.  The    *)
(* handlers contain no await, so that concurrent requests are handled one  *)
(* whole handler after the other: every interleaving of requests is a      *)
(* sequence of such steps.                                                 *)
(***************************************************************************)
ReadOps ==
    {"POST", "GET", "execute_tool", "list_tools", "get_tool_info",
     "generate_openapi_schema"}

C12_RequestsLeaveRegistry ==
    [][out'.op \in ReadOps => tools' = tools]_vars

\* A POST has run a tool, with two tools registered, and both are still there
\* with the registrations last made for them.
C12_Witness ==
    /\ out.op = "POST" /\ out.resp.status = 200 /\ Len(invoked) = 1
    /\ Len(tools) = 2
    /\ \A i \in 1..Len(tools) :
          /\ tools[i].name \in DOMAIN latest
          /\ tools[i].function = latest[tools[i].name].func

(***************************************************************************)
(* C15.  Registration is total: every use of the decorator returns without *)
(* raising and leaves an entry under the tool's name, made from the        *)
(* callable that was registered.                                           *)
(***************************************************************************)
C15_RegistrationTotal ==
    out.op = "register"
        => /\ out.resp.kind # "raise"
           /\ Has(tools, out.name)
           /\ out.name \in DOMAIN latest
           /\ Get(tools, out.name).function = latest[out.name].func

(***************************************************************************)
(* C17.  list_tools() returns the registered names in the order in which   *)
(* they were first registered: registering a name again leaves it at the   *)
(* position it has.                                                        *)
(***************************************************************************)
C17_ListInInsertionOrder ==
    /\ list_tools(tools) = order
    /\ out.op = "list_tools" => out.resp.names = order
    /\ (out.op = "GET" /\ out.resp.kind = "list") => out.resp.names = order

\* The name registered first has just been registered again, after a second
\* name, with another callable.
C17_Witness ==
    /\ out.op = "register" /\ out.resp.kind # "raise"
    /\ Len(order) = 2 /\ nRegs = 3
    /\ out.name = order[1]
    /\ replaced.name = order[1]
    /\ list_tools(tools) = order

(***************************************************************************)
(* C14.  A well-formed POST to a bound tool invokes the tool's callable    *)
(* exactly once and has exactly one outcome: 200 with the result when the  *)
(* call returned, 500 with the error when it raised.  A call that raised   *)
(* is not made again.                                                      *)
(***************************************************************************)
C14_OneInvocationOneOutcome ==
    (out.op = "POST" /\ BoundPath(out.prefix, out.name)
                     /\ ~Malformed(BoundFunc(out.name), out.args)) =>
        /\ Len(invoked) = 1
        /\ invoked[1].func = LatestFunc(out.name).id
        /\ LET r == Call(LatestFunc(out.name), invoked[1].kwargs)
           IN  /\ out.resp.status = (IF r.ok THEN 200 ELSE 500)
               /\ out.resp.kind = (IF r.ok THEN "result" ELSE "error")

\* The callable of a bound tool was replaced by one with another signature; the
\* POST passes validation against the bound schema, the call raises a TypeError
\* and is reported once.
C14_Witness ==
    /\ out.op = "POST"
    /\ BoundPath(out.prefix, out.name)
    /\ ~Malformed(BoundFunc(out.name), out.args)
    /\ BoundFunc(out.name) # LatestFunc(out.name)
    /\ Len(invoked) = 1
    /\ out.resp.status = 500
    /\ out.resp.detail # "boom"

(***************************************************************************)
(* C16.  generate_openapi_schema() has exactly one path per registered     *)
(* tool, a POST operation.  Its request-body schema has one property per   *)
(* parameter of the tool's callable, in the signature's order, and its     *)
(* `required` list holds exactly the parameters without a default, each    *)
(* once; the request body is marked required iff that list is not empty.   *)
(***************************************************************************)
SeqSet(s) == {s[i] : i \in 1..Len(s)}

C16_SchemaPerTool ==
    out.op = "generate_openapi_schema" =>
        LET paths == out.resp.info[1].paths
        IN  /\ Len(paths) = Cardinality(DOMAIN latest)
            /\ \A n \in DOMAIN latest :
                  LET items == {i \in 1..Len(paths) : paths[i].post.operationId = n}
                      body == paths[CHOOSE i \in items : TRUE].post.requestBody
                      params == latest[n].func.params
                  IN  /\ Cardinality(items) = 1
                      /\ DictKeys(body.schema.properties)
                            = [j \in 1..Len(params) |-> params[j].name]
                      /\ SeqSet(body.schema.required)
                            = {params[j].name : j \in {k \in 1..Len(params) :
                                                          params[k].default = Empty}}
                      /\ Len(body.schema.required)
                            = Cardinality(SeqSet(body.schema.required))
                      /\ body.required <=> body.schema.required # <<>>

\* The schema of a registry holding echo(x, y: int = 7) and fail(): one required
\* and one optional parameter for the first, an optional request body for the second.
C16_Witness ==
    /\ out.op = "generate_openapi_schema"
    /\ Len(out.resp.info[1].paths) = 2
    /\ \E i, j \in 1..2 :
          LET a == out.resp.info[1].paths[i].post.requestBody
              b == out.resp.info[1].paths[j].post.requestBody
          IN  /\ a.schema.required = <<"x">> /\ Len(a.schema.properties) = 2 /\ a.required
              /\ b.schema.required = <<>> /\ ~b.required

(***************************************************************************)
(* C18.  No step takes a name out of the registry: the set of registered   *)
(* names only grows, and it grows only in a registration step, by the      *)
(* name that was registered.                                               *)
(***************************************************************************)
C18_NamesOnlyGrow ==
    [][/\ KeySet(tools) \subseteq KeySet(tools')
       /\ KeySet(tools') # KeySet(tools) =>
             /\ out'.op = "register"
             /\ KeySet(tools') = KeySet(tools) \cup {out'.name}]_vars

\* Three names are registered and the one registered first is still described
\* by its info endpoint.
C18_Witness ==
    /\ Len(tools) = 3 /\ Len(order) = 3
    /\ out.op = "GET" /\ out.resp.kind = "info" /\ out.resp.status = 200
    /\ out.name = order[1]

(***************************************************************************)
(* C19.  A descriptor stays as it was registered: the descriptor stored    *)
(* under a name differs after a step only when the step is a registration  *)
(* under that name.  Requests, reads, the binding and registrations under  *)
(* other names leave it equal, field by field.                             *)
(***************************************************************************)
C19_DescriptorImmutable ==
    [][\A i \in 1..Len(tools) :
          (Has(tools', tools[i].name) /\ Get(tools', tools[i].name) # tools[i]) =>
              /\ out'.op = "register"
              /\ out'.name = tools[i].name
              /\ out'.resp.kind # "raise"]_vars

\* get_tool_info has described a tool with two parameters, and the descriptor
\* is the one its registration made.
C19_Witness ==
    /\ out.op = "get_tool_info" /\ out.resp.kind = "return"
    /\ Len(Get(tools, out.name).parameters) = 2
    /\ Get(tools, out.name) =
          ToolMetadata(latest[out.name].func, latest[out.name].name,
                       latest[out.name].description)

(***************************************************************************)
(* Start-up of the application: the imports of app/main.py in the order    *)
(* written, each tool module decorating its functions on the `mcp` of its  *)
(* own namespace, then register_mcp_tools(app, mcp, prefix="/tools").      *)
(* `tools` is the registry of mcp.client.mcp_instance; `others` is the     *)
(* list of the modules imported so far, each with the registry of the      *)
(* FastMCP instance it built itself (empty when it built none).            *)
(* The tool functions answer with the text of the completion; what they    *)
(* make of the text is the subject of SpecText and SpecCover.              *)
(***************************************************************************)
\* def generate_linkedin_connection_request(name: str, about_section: str = "") -> str
Task1F == [id |-> "task1", name |-> "generate_linkedin_connection_request",
           doc |-> StrV("Generates a short LinkedIn connection request (<300 characters)\nusing the new OpenAI client interface (>=1.0.0)."),
           params |-> <<Param("name", "str", Empty), Param("about_section", "str", StrV(""))>>,
           ret |-> "str"]

\* def linkedin_job_inquiry_request(name: str, about_section: str = "", job_posting: str = "") -> str
Task2F == [id |-> "task2", name |-> "linkedin_job_inquiry_request",
           doc |-> StrV("Generates a short LinkedIn job inquiry request (<300 characters).\nIncorporates the person's name, optional About section, and the job posting.\nEmphasizes that the user has already applied for the role."),
           params |-> <<Param("name", "str", Empty), Param("about_section", "str", StrV("")),
                        Param("job_posting", "str", StrV(""))>>,
           ret |-> "str"]

\* def resume_optimization(resume_text: str, job_description: str) -> str
Task3F == [id |-> "task3", name |-> "resume_optimization",
           doc |-> StrV("Generates resume optimization suggestions based on the provided resume text and job description.\nThe suggestions should:\n  - Identify relevant keywords, phrases, and requirements from the job description.\n  - Recommend natural ways to incorporate these into the existing resume.\n  - Suggest rewording, emphasizing, or reordering existing projects, experiences, or skills.\n  - Avoid fabricating any new information."),
           params |-> <<Param("resume_text", "str", Empty),
                        Param("job_description", "str", Empty)>>,
           ret |-> "str"]

\* def generate_cover_letter_initial(resume_text: str, job_description: str) -> dict
Task4InitialF == [id |-> "task4_initial", name |-> "generate_cover_letter_initial",
                  doc |-> StrV("Given a resume and job description, decide whether there's sufficient context\nto generate a personalized cover letter. If sufficient, return the cover letter.\nIf not, return follow-up questions as a JSON array."),
                  params |-> <<Param("resume_text", "str", Empty),
                               Param("job_description", "str", Empty)>>,
                  ret |-> "dict"]

\* def generate_cover_letter_final(resume_text: str, job_description: str,
\*                                 follow_up_answers: str) -> str
Task4FinalF == [id |-> "task4_final", name |-> "generate_cover_letter_final",
                doc |-> StrV("Generates the final personalized cover letter using the resume, job description,\nand additional context provided in follow-up answers."),
                params |-> <<Param("resume_text", "str", Empty),
                             Param("job_description", "str", Empty),
                             Param("follow_up_answers", "str", Empty)>>,
                ret |-> "str"]

\* A module: whether its `mcp` is the shared mcp.client.mcp_instance or a
\* FastMCP("Agentic Tasks") of its own, and the functions it decorates with it.
Module(module, mcp, decorated) == [module |-> module, mcp |-> mcp, decorated |-> decorated]

\* mcp/client.py: mcp_instance, the one FastMCP instance of the server.
McpClient == Module("mcp.client", "mcp_instance", <<>>)

\* from mcp.client import mcp_instance as mcp; @mcp.tool()
Task1Module == Module("tools.task1_connection", "mcp_instance", <<Task1F>>)

\* mcp = FastMCP("Agentic Tasks"); @mcp.tool()
Task2Module == Module("tools.task2_inquiry", "own", <<Task2F>>)

\* mcp = FastMCP("Agentic Tasks"); @mcp.tool()
Task3Module == Module("tools.task3_resume_optimization", "own", <<Task3F>>)

\* from mcp.client import mcp_instance as mcp; @mcp.tool() twice
Task4Module == Module("tools.task4_cover_letter", "mcp_instance", <<Task4InitialF, Task4FinalF>>)

\* The imports of app/main.py that build or use a registry, in the order written.
MainImports == <<McpClient, Task1Module, Task2Module, Task3Module, Task4Module>>

\* The decorator applied to each function of a module in turn: @mcp.tool().
RECURSIVE Decorate(_, _)
Decorate(d, funcs) ==
    IF funcs = <<>> THEN d
    ELSE LET meta == ToolMetadata(Head(funcs), NoneV, NoneV)
         IN  Decorate(DictSet(d, meta.name, meta), Tail(funcs))

\* The registrations a module makes in the shared instance, added to the history.
RECURSIVE LatestAfter(_, _)
LatestAfter(l, funcs) ==
    IF funcs = <<>> THEN l
    ELSE LatestAfter([k \in DOMAIN l \cup {Head(funcs).name} |->
                         IF k = Head(funcs).name
                         THEN Registration(Head(funcs), NoneV, NoneV)
                         ELSE l[k]],
                     Tail(funcs))

\* The interpreter's state that the imports build: the registry of mcp_instance,
\* its registrations by name and in order, the decorations made so far and the
\* modules imported.
NoImports ==
    [tools |-> <<>>, latest |-> [k \in {} |-> NoneV], order |-> <<>>, nRegs |-> 0,
     others |-> <<>>]

\* One import: the module's top level runs, decorating its functions on its `mcp`.
Import(s, m) ==
    [tools |-> IF m.mcp = "mcp_instance" THEN Decorate(s.tools, m.decorated) ELSE s.tools,
     latest |-> IF m.mcp = "mcp_instance" THEN LatestAfter(s.latest, m.decorated)
                ELSE s.latest,
     order |-> IF m.mcp = "mcp_instance"
               THEN s.order \o [i \in 1..Len(m.decorated) |-> m.decorated[i].name]
               ELSE s.order,
     nRegs |-> s.nRegs + Len(m.decorated),
     others |-> Append(s.others,
                  [module |-> m.module, mcp |-> m.mcp,
                   tools |-> IF m.mcp = "own" THEN Decorate(<<>>, m.decorated) ELSE <<>>])]

\* The state after the first k imports of app/main.py.
RECURSIVE Imported(_)
Imported(k) == IF k = 0 THEN NoImports ELSE Import(Imported(k - 1), MainImports[k])

(***************************************************************************)
(* The event loop.  The endpoint of a tool is `async def endpoint(request)`*)
(* and calls the synchronous execute_tool in its body, without an await    *)
(* and without a thread pool: the handler holds the thread of the          *)
(* application's event loop from its start until the callable has          *)
(* returned or raised.  A request that a client has sent waits for that    *)
(* thread.  The registry is the one the application builds at start-up:    *)
(* the tools are registered on import, then bound under "/tools".          *)
(***************************************************************************)
MaxReqs == 3

\* POST /tools/<seg>: a tool of the registry and a function that is decorated on
\* a FastMCP of its own module; a body that is valid for both and one that is not.
LoopSegs == {"generate_linkedin_connection_request", "linkedin_job_inquiry_request"}
LoopPayloads == {NoKwargs, [name |-> StrV("Ann")]}

NoReq == [st |-> "none", seg |-> "", payload |-> NoKwargs, resp |-> NoResponse]

\* The registry of mcp_instance when app/main.py has run its imports.
BootRegistrations == Imported(Len(MainImports)).latest

BootTools == Imported(Len(MainImports)).tools

InitLoop ==
    /\ tools = BootTools
    /\ routes = register_mcp_tools(<<>>, BootTools, "/tools")
    /\ bound = TRUE
    /\ out = Op("bind", "/tools", "", NoKwargs, NoResponse)
    /\ invoked = <<>>
    /\ latest = BootRegistrations
    /\ replaced = [name |-> "", func |-> ""]
    /\ binding = [prefix |-> "/tools", regs |-> BootRegistrations]
    /\ nRegs = Imported(Len(MainImports)).nRegs
    /\ order = Imported(Len(MainImports)).order
    /\ reqs = [r \in 1..MaxReqs |-> NoReq]
    /\ running = 0
    /\ content = <<>>
    /\ message = <<>>
    /\ others = Imported(Len(MainImports)).others
    /\ store = <<>>
    /\ factory = ""
    /\ session = <<>>

\* A client sends POST /tools/<seg> with a JSON object.
SendRequest(r, seg, payload) ==
    /\ reqs[r].st = "none"
    /\ reqs' = [reqs EXCEPT ![r] = [st |-> "waiting", seg |-> seg, payload |-> payload,
                                    resp |-> NoResponse]]
    /\ UNCHANGED <<tools, routes, bound, out, invoked, hist, running, textVars, appVars>>

\* The event loop starts the handler of a waiting request, which needs the loop's
\* thread.  A body that fails validation is answered at once; otherwise the
\* handler calls execute_tool and the callable is in flight, on that thread.
StartRequest(r) ==
    /\ reqs[r].st = "waiting"
    /\ running = 0
    /\ LET served == Serve(routes, tools, "POST", "/tools", reqs[r].seg, reqs[r].payload)
       IN  IF served.invoked = <<>>
           THEN /\ reqs' = [reqs EXCEPT ![r].st = "done", ![r].resp = served.resp]
                /\ running' = 0
           ELSE /\ reqs' = [reqs EXCEPT ![r].st = "running"]
                /\ running' = r
    /\ UNCHANGED <<tools, routes, bound, out, invoked, hist, textVars, appVars>>

\* The callable returns or raises, the handler builds the response and gives the
\* thread back to the event loop.
FinishRequest(r) ==
    /\ reqs[r].st = "running"
    /\ running = r
    /\ LET served == Serve(routes, tools, "POST", "/tools", reqs[r].seg, reqs[r].payload)
       IN  reqs' = [reqs EXCEPT ![r].st = "done", ![r].resp = served.resp]
    /\ running' = 0
    /\ UNCHANGED <<tools, routes, bound, out, invoked, hist, textVars, appVars>>

NextLoop ==
    \/ \E r \in 1..MaxReqs, seg \in LoopSegs, payload \in LoopPayloads :
          SendRequest(r, seg, payload)
    \/ \E r \in 1..MaxReqs : StartRequest(r)
    \/ \E r \in 1..MaxReqs : FinishRequest(r)

SpecLoop == InitLoop /\ [][NextLoop]_vars

(***************************************************************************)
(* C13.  While the callable of one request is in flight, the binder starts *)
(* the handler of any other request that is waiting: executions of two     *)
(* POST requests can overlap.                                              *)
(***************************************************************************)
C13_StartsWhileInFlight ==
    \A q \in DOMAIN reqs, r \in DOMAIN reqs :
        (reqs[q].st = "running" /\ reqs[r].st = "waiting") => ENABLED StartRequest(r)

(***************************************************************************)
(* The message tools (src/tools/task1_connection.py, task2_inquiry.py).    *)
(* Both take the text of the chat completion, strip it, and cut it when it *)
(* is longer than the limit.  A text is kept run-length encoded: a         *)
(* sequence of runs [ch, n] of n >= 1 equal characters, adjacent runs of   *)
(* different characters; " " and "\n" are whitespace characters and "a"    *)
(* stands for any other character.                                         *)
(***************************************************************************)
MaxRuns == 3
Limit == 300

Chars == {"a", " ", "\n"}
RunLengths == {1, 2, Limit - 1, Limit, Limit + 1}
Runs == [ch : Chars, n : RunLengths]
Texts ==
    UNION {{t \in [1..k -> Runs] : \A i \in 1..(k - 1) : t[i].ch # t[i + 1].ch} :
              k \in 0..MaxRuns}

IsSpace(ch) == ch \in {" ", "\n"}

\* len(s)
RECURSIVE StrLen(_)
StrLen(t) == IF t = <<>> THEN 0 ELSE t[1].n + StrLen(Tail(t))

\* s.lstrip(), s.rstrip(), s.strip()
RECURSIVE LStrip(_)
LStrip(t) == IF t # <<>> /\ IsSpace(t[1].ch) THEN LStrip(Tail(t)) ELSE t

RECURSIVE RStrip(_)
RStrip(t) ==
    IF t # <<>> /\ IsSpace(t[Len(t)].ch) THEN RStrip(SubSeq(t, 1, Len(t) - 1)) ELSE t

Strip(t) == LStrip(RStrip(t))

\* s[:k]
RECURSIVE Slice(_, _)
Slice(t, k) ==
    IF t = <<>> \/ k = 0 THEN <<>>
    ELSE IF t[1].n <= k THEN <<t[1]>> \o Slice(Tail(t), k - t[1].n)
    ELSE <<[ch |-> t[1].ch, n |-> k]>>

\* Mutation of the limit: the slice is returned with its trailing whitespace.
EnforceLimitNoRStrip(text) ==
    LET stripped == Strip(text)
    IN  IF StrLen(stripped) > Limit THEN Slice(stripped, Limit) ELSE stripped

\* message = content.strip(); if len(message) > 300: message = message[:300].rstrip()
EnforceLimit(text) ==
    LET stripped == Strip(text)
    IN  IF StrLen(stripped) > Limit THEN RStrip(Slice(stripped, Limit)) ELSE stripped

NoMessage == [by |-> "", text |-> <<>>]

InitText ==
    /\ content \in Texts
    /\ message = NoMessage
    /\ tools = <<>>
    /\ routes = <<>>
    /\ bound = FALSE
    /\ out = Op("init", "", "", NoKwargs, NoResponse)
    /\ invoked = <<>>
    /\ latest = [k \in {} |-> NoneV]
    /\ replaced = [name |-> "", func |-> ""]
    /\ binding = [prefix |-> "", regs |-> [k \in {} |-> NoneV]]
    /\ nRegs = 0
    /\ order = <<>>
    /\ reqs = <<>>
    /\ running = 0
    /\ NoApp

\* generate_linkedin_connection_request(name, about_section)
GenerateConnectionRequest ==
    /\ message = NoMessage
    /\ message' = [by |-> "generate_linkedin_connection_request",
                   text |-> EnforceLimit(content)]
    /\ UNCHANGED <<tools, routes, bound, out, invoked, hist, loopVars, content, appVars>>

\* linkedin_job_inquiry_request(name, about_section, job_posting)
GenerateJobInquiry ==
    /\ message = NoMessage
    /\ message' = [by |-> "linkedin_job_inquiry_request", text |-> EnforceLimit(content)]
    /\ UNCHANGED <<tools, routes, bound, out, invoked, hist, loopVars, content, appVars>>

NextText ==
    \/ GenerateConnectionRequest
    \/ GenerateJobInquiry

SpecText == InitText /\ [][NextText]_vars

(***************************************************************************)
(* C20.  The message a message tool returns has at most 300 characters.    *)
(* It is the generated text without its leading whitespace, up to a point  *)
(* where no whitespace ends it: when the stripped text has at most 300     *)
(* characters, all of it (only whitespace follows in the generated text);  *)
(* when it is longer, its first 300 characters without the whitespace at   *)
(* their end.  Stated character by character.                              *)
(***************************************************************************)
\* The i-th character of a text (1-based), "" beyond its end.
RECURSIVE CharAt(_, _)
CharAt(t, i) ==
    IF t = <<>> THEN ""
    ELSE IF i <= t[1].n THEN t[1].ch
    ELSE CharAt(Tail(t), i - t[1].n)

\* The number of whitespace characters a text begins with.
RECURSIVE LeadingSpaces(_)
LeadingSpaces(t) ==
    IF t # <<>> /\ IsSpace(t[1].ch) THEN t[1].n + LeadingSpaces(Tail(t)) ELSE 0

C20_MessageWithinLimit ==
    message.by # "" =>
        LET a == LeadingSpaces(content)
            L == StrLen(content)
            M == StrLen(message.text)
            longer == \E i \in (a + 301)..L : ~IsSpace(CharAt(content, i))
        IN  /\ M <= 300
            /\ \A i \in 1..M : CharAt(message.text, i) = CharAt(content, a + i)
            /\ M > 0 => ~IsSpace(CharAt(message.text, M))
            /\ ~longer => \A i \in (a + M + 1)..L : IsSpace(CharAt(content, i))
            /\ longer => \A i \in (a + M + 1)..(a + 300) : IsSpace(CharAt(content, i))

\* The stripped text is longer than 300 characters and its 300th character is
\* whitespace: the message is shorter than 300 characters.
C20_Witness ==
    /\ message.by = "linkedin_job_inquiry_request"
    /\ StrLen(Strip(content)) > 300
    /\ CharAt(Strip(content), 300) = "\n"
    /\ CharAt(Strip(content), 301) = "\n"
    /\ StrLen(message.text) = 299

(***************************************************************************)
(* C22.  Once the registry is bound, the names the list endpoint returns   *)
(* and the POST routes are the same set: every registered name, also one   *)
(* registered after the binding, has a POST route <prefix>/<name>, and a   *)
(* POST to it is handled by the tool's endpoint.                           *)
(***************************************************************************)
C22_ListedNamesHavePostRoutes ==
    /\ bound =>
          SeqSet(list_tools(tools))
              = {routes[i].seg : i \in {j \in ToolRoutes : routes[j].prefix = binding.prefix}}
    /\ (out.op = "POST" /\ bound /\ out.prefix = binding.prefix
                        /\ out.name \in SeqSet(list_tools(tools)))
          => out.resp.status \in {200, 422, 500}

(***************************************************************************)
(* C23.  The path under which generate_openapi_schema documents a bound    *)
(* tool is the path of the POST route the binder made for it,              *)
(* <prefix>/<name>, whatever prefix the registry was bound with.           *)
(***************************************************************************)
C23_SchemaPathIsRoutePath ==
    (out.op = "generate_openapi_schema" /\ bound) =>
        \A n \in DOMAIN binding.regs :
            \E i \in 1..Len(out.resp.info[1].paths) :
                /\ out.resp.info[1].paths[i].post.operationId = n
                /\ out.resp.info[1].paths[i].name = binding.prefix \o "/" \o n

(***************************************************************************)
(* The cover letter tools (src/tools/task4_cover_letter.py).  The text of  *)
(* the chat completion is a sequence of tokens: a space, a form feed, the  *)
(* marker FOLLOW-UP:, the JSON tokens [ ] , a JSON string literal and an   *)
(* empty JSON object, and a word of plain text.  A dict with optional keys *)
(* has every key as a sequence, empty when the key is not set.             *)
(***************************************************************************)
MaxTokens == 4

WsTok == " "
\* whitespace that str.strip removes and the JSON decoder does not skip
FormFeedTok == "\f"
MarkerTok == "FOLLOW-UP:"
StringTok == "\"q\""
ObjectTok == "{}"
WordTok == "Dear"
Tokens == {WsTok, FormFeedTok, MarkerTok, "[", "]", ",", StringTok, ObjectTok, WordTok}

\* str.isspace
IsSpaceTok(tok) == tok \in {WsTok, FormFeedTok}

CoverTexts == UNION {[1..k -> Tokens] : k \in 0..MaxTokens}

\* s.strip() on a sequence of tokens
RECURSIVE TokLStrip(_)
TokLStrip(ts) == IF ts # <<>> /\ IsSpaceTok(ts[1]) THEN TokLStrip(Tail(ts)) ELSE ts

RECURSIVE TokRStrip(_)
TokRStrip(ts) ==
    IF ts # <<>> /\ IsSpaceTok(ts[Len(ts)]) THEN TokRStrip(SubSeq(ts, 1, Len(ts) - 1)) ELSE ts

TokStrip(ts) == TokLStrip(TokRStrip(ts))

\* json.loads: JSON values are [kind, items]; whitespace between tokens is skipped.
JsonValue(kind, items) == [kind |-> kind, items |-> items]
\* JSONDecodeError(msg, doc, pos): the message without the position.
ParseFail(msg) == [ok |-> FALSE, value |-> JsonValue("", <<>>), next |-> 0, msg |-> msg]
Parsed(value, next) == [ok |-> TRUE, value |-> value, next |-> next, msg |-> ""]

RECURSIVE ParseValue(_, _)
RECURSIVE ParseElements(_, _, _)
ParseValue(ts, i) ==
    IF i > Len(ts) THEN ParseFail("Expecting value")
    ELSE CASE ts[i] = StringTok -> Parsed(JsonValue("str", <<>>), i + 1)
           [] ts[i] = ObjectTok -> Parsed(JsonValue("dict", <<>>), i + 1)
           [] ts[i] = "[" ->
                IF i + 1 <= Len(ts) /\ ts[i + 1] = "]"
                THEN Parsed(JsonValue("list", <<>>), i + 2)
                ELSE ParseElements(ts, i + 1, <<>>)
           [] OTHER -> ParseFail("Expecting value")

ParseElements(ts, i, acc) ==
    LET v == ParseValue(ts, i)
    IN  IF ~v.ok THEN v
        ELSE IF v.next <= Len(ts) /\ ts[v.next] = "]"
        THEN Parsed(JsonValue("list", Append(acc, v.value)), v.next + 1)
        ELSE IF v.next <= Len(ts) /\ ts[v.next] = ","
        THEN ParseElements(ts, v.next + 1, Append(acc, v.value))
        ELSE ParseFail("Expecting ',' delimiter")

json_loads(ts) ==
    LET t == SelectSeq(ts, LAMBDA tok : tok # WsTok)
        v == ParseValue(t, 1)
    IN  IF ~v.ok THEN Raise("JSONDecodeError", v.msg)
        ELSE IF v.next # Len(t) + 1 THEN Raise("JSONDecodeError", "Extra data")
        ELSE Return(v.value)

\* The four built-in questions.
FallbackQuestions ==
    JsonValue("list", <<JsonValue("str", <<>>), JsonValue("str", <<>>),
                        JsonValue("str", <<>>), JsonValue("str", <<>>)>>)

CoverResult(follow_up_needed, questions, cover_letter) ==
    [follow_up_needed |-> follow_up_needed, questions |-> questions,
     cover_letter |-> cover_letter]

\* generate_cover_letter_initial, from the text of the completion on.
generate_cover_letter_initial(text) ==
    LET output == TokStrip(text)
    IN  IF output # <<>> /\ output[1] = MarkerTok
        THEN LET questions == json_loads(TokStrip(Tail(output)))
             IN  IF questions.ok
                 THEN CoverResult(<<TRUE>>, <<questions.value>>, <<>>)
                 ELSE CoverResult(<<TRUE>>, <<FallbackQuestions>>, <<>>)
        ELSE CoverResult(<<>>, <<>>, <<output>>)

\* generate_cover_letter_final, from the text of the completion on.
generate_cover_letter_final(text) == TokStrip(text)

InitCover ==
    /\ content \in CoverTexts
    /\ message = NoMessage
    /\ tools = <<>>
    /\ routes = <<>>
    /\ bound = FALSE
    /\ out = Op("init", "", "", NoKwargs, NoResponse)
    /\ invoked = <<>>
    /\ latest = [k \in {} |-> NoneV]
    /\ replaced = [name |-> "", func |-> ""]
    /\ binding = [prefix |-> "", regs |-> [k \in {} |-> NoneV]]
    /\ nRegs = 0
    /\ order = <<>>
    /\ reqs = <<>>
    /\ running = 0
    /\ NoApp

GenerateCoverLetterInitial ==
    /\ message = NoMessage
    /\ message' = [by |-> "generate_cover_letter_initial",
                   text |-> generate_cover_letter_initial(content)]
    /\ UNCHANGED <<tools, routes, bound, out, invoked, hist, loopVars, content, appVars>>

GenerateCoverLetterFinal ==
    /\ message = NoMessage
    /\ message' = [by |-> "generate_cover_letter_final",
                   text |-> generate_cover_letter_final(content)]
    /\ UNCHANGED <<tools, routes, bound, out, invoked, hist, loopVars, content, appVars>>

NextCover ==
    \/ GenerateCoverLetterInitial
    \/ GenerateCoverLetterFinal

SpecCover == InitCover /\ [][NextCover]_vars

(***************************************************************************)
(* C21.  generate_cover_letter_initial returns one of two shapes.  When    *)
(* the stripped text starts with FOLLOW-UP:, follow_up_needed is true,     *)
(* questions is a list and there is no cover_letter; otherwise             *)
(* cover_letter is the stripped text and follow_up_needed is not set.      *)
(***************************************************************************)
C21_TwoShapes ==
    message.by = "generate_cover_letter_initial" =>
        LET firstWord == {i \in 1..Len(content) : ~IsSpaceTok(content[i])}
            result == message.text
        IN  IF firstWord # {} /\ content[Min(firstWord)] = MarkerTok
            THEN /\ result.follow_up_needed = <<TRUE>>
                 /\ Len(result.questions) = 1
                 /\ result.questions[1].kind = "list"
                 /\ result.cover_letter = <<>>
            ELSE /\ result.follow_up_needed = <<>>
                 /\ Len(result.cover_letter) = 1
                 /\ result.cover_letter[1] = TokStrip(content)

(***************************************************************************)
(* Start-up of the application, step by step, and the requests it serves   *)
(* once app/main.py has been imported.                                     *)
(***************************************************************************)
BootSegs ==
    {"generate_linkedin_connection_request", "linkedin_job_inquiry_request",
     "resume_optimization", "generate_cover_letter_initial",
     "generate_cover_letter_final", "nonexistent"}

BootPayloads ==
    {[k \in {} |-> NoneV],
     [name |-> StrV("Ann")],
     [name |-> StrV("Ann"), about_section |-> StrV("ML")],
     [name |-> IntV(3)],
     [about_section |-> StrV("ML")],
     [resume_text |-> StrV("cv")],
     [resume_text |-> StrV("cv"), job_description |-> StrV("jd")],
     [resume_text |-> StrV("cv"), job_description |-> IntV(3)],
     [resume_text |-> StrV("cv"), job_description |-> StrV("jd"),
      follow_up_answers |-> StrV("a")]}

\* The interpreter before the first import.
InitBoot ==
    /\ tools = <<>>
    /\ routes = <<>>
    /\ bound = FALSE
    /\ out = Op("init", "", "", NoKwargs, NoResponse)
    /\ invoked = <<>>
    /\ latest = [k \in {} |-> NoneV]
    /\ replaced = [name |-> "", func |-> ""]
    /\ binding = [prefix |-> "", regs |-> [k \in {} |-> NoneV]]
    /\ nRegs = 0
    /\ order = <<>>
    /\ reqs = <<>>
    /\ running = 0
    /\ content = <<>>
    /\ message = <<>>
    /\ others = <<>>
    /\ store = <<>>
    /\ factory = ""
    /\ session = <<>>

\* The next import of app/main.py runs the module's top level.
ImportModule ==
    /\ Len(others) < Len(MainImports)
    /\ LET m == MainImports[Len(others) + 1]
           s == Import([tools |-> tools, latest |-> latest, order |-> order,
                        nRegs |-> nRegs, others |-> others], m)
       IN  /\ others' = s.others
           /\ tools' = s.tools
           /\ latest' = s.latest
           /\ order' = s.order
           /\ nRegs' = s.nRegs
           /\ out' = Op("import", "", m.module, NoKwargs, NoResponse)
    /\ invoked' = <<>>
    /\ UNCHANGED <<routes, bound, replaced, binding, loopVars, textVars, store, factory,
                   session>>

\* register_mcp_tools(app, mcp, prefix="/tools"), after the imports.
BindMain ==
    /\ Len(others) = Len(MainImports)
    /\ Bind("/tools")

\* The application serves once app/main.py has been imported.
BootPost(prefix, seg, payload) ==
    /\ bound
    /\ HttpPost(prefix, seg, payload)

BootGet(prefix, seg) ==
    /\ bound
    /\ HttpGet(prefix, seg)

NextBoot ==
    \/ ImportModule
    \/ BindMain
    \/ \E prefix \in Prefixes, seg \in BootSegs, payload \in BootPayloads :
          BootPost(prefix, seg, payload)
    \/ \E prefix \in Prefixes, seg \in BootSegs \cup {""} : BootGet(prefix, seg)
    \/ Returned

SpecBoot == InitBoot /\ [][NextBoot]_vars

\* The functions of the repository decorated as tools, by name.
DecoratedNames ==
    UNION {{MainImports[i].decorated[j].name : j \in 1..Len(MainImports[i].decorated)} :
              i \in 1..Len(MainImports)}

HasPostRoute(prefix, n) ==
    \E i \in 1..Len(routes) :
        routes[i].method = "POST" /\ routes[i].prefix = prefix /\ routes[i].seg = n

\* C24: once the application has bound its registry, every function decorated as a
\* tool has a POST route under /tools, and GET /tools/ lists every one of them.
C24_AllFiveToolsBound ==
    bound =>
        \A n \in DecoratedNames :
            /\ HasPostRoute("/tools", n)
            /\ (out.op = "GET" /\ out.prefix = "/tools" /\ out.name = "")
                  => n \in SeqSet(out.resp.names)

(***************************************************************************)
(* The application of app/main.py as it is served.                         *)
(* `store` is the database: the rows committed so far, in commit order.    *)
(* `reqs` holds, for each client connection, the request it has in flight  *)
(* and how far its handling has come.  Requests are served concurrently:   *)
(* the event loop accepts a request and hands get_db, the dependency every *)
(* endpoint takes its `db` from, to a worker thread; between two steps of  *)
(* a request the steps of the other request may happen.                    *)
(*                                                                         *)
(* app/database.py builds SessionLocal with the keyword `autocomit`, which *)
(* sessionmaker keeps and hands to Session() on every call, and Session()  *)
(* has no such parameter: get_db raises TypeError at its first statement   *)
(* for every request, the exception leaves the dependency before FastAPI   *)
(* calls the handler, and the server answers 500 "Internal Server Error"   *)
(* without a detail.  No behaviour of the application enters a handler of  *)
(* main.py, so no generation function is called and no row is committed.   *)
(*                                                                         *)
(* `out` tells how the application was started.  A server that runs the    *)
(* lifespan handler (uvicorn does unless started with --lifespan off)      *)
(* calls init_db(), which raises AttributeError on `Base.metadat`: the     *)
(* start-up fails and the server exits without serving a request.  A       *)
(* server that does not run it serves the requests.                        *)
(***************************************************************************)
MaxRows == 3

\* The client connections that may have a request in flight.
Clients == {1, 2}

\* A row of a table.  job_application_id is 0 in the tables without that column.
Row(table, id, job_application_id, text) ==
    [table |-> table, id |-> id, job_application_id |-> job_application_id, text |-> text]

TableRows(st, table) == SelectSeq(st, LAMBDA r : r.table = table)

\* id = Column(Integer, primary_key=True): the next id of a table without deletions.
NextId(st, table) == Len(TableRows(st, table)) + 1

\* db.query(JobApplication).filter(JobApplication.id == id).first() is not None
JobAppExists(st, id) ==
    \E i \in 1..Len(st) : st[i].table = "JobApplication" /\ st[i].id = id

JobIds == {1, 2}
DatesApplied == {NoneV, StrV("2024-01-31"), StrV("soon")}
FollowUpAnswers == {NoneV, StrV(""), StrV("a")}

AppRequest(job_application_id, date_applied, follow_up_answers) ==
    [job_application_id |-> job_application_id, date_applied |-> date_applied,
     follow_up_answers |-> follow_up_answers]

AppResponse(status, kind, text, detail, id, questions) ==
    [status |-> status, kind |-> kind, text |-> text, detail |-> detail, id |-> id,
     questions |-> questions]

\* A request in flight.  pc is where its handling stands: "arrived" (accepted,
\* get_db handed to a worker thread), "closed" (get_db is done, the response is
\* ready).  opened tells whether get_db got its session, db is the calls made on
\* the session, invoked the generation functions called, fault the call on the
\* session that raised, added the row committed.
NoAppRequest ==
    [pc |-> "idle", path |-> "", request |-> AppRequest(0, NoneV, NoneV),
     opened |-> <<>>, db |-> <<>>, invoked |-> <<>>, fault |-> "", added |-> <<>>,
     resp |-> AppResponse(0, "none", <<>>, "", 0, <<>>)]

Arrived(path, request) ==
    [NoAppRequest EXCEPT !.pc = "arrived", !.path = path, !.request = request]

\* The handlers declared `async def`.
AsyncPaths == {"/task3/resume-optimization", "/task4/cover-letter"}

\* The endpoints that take a job_application_id.
TaskPaths == {"/task2/job-inquiry", "/task3/resume-optimization", "/task4/cover-letter"}

\* SessionLocal = sessionmaker(autocomit=False, autoflush=False, bind=engine);
\* SessionLocal() is Session(bind=engine, autoflush=False, autocomit=False), which
\* raises TypeError for the keyword it does not know.
SessionLocal == Raise("TypeError", "unexpected keyword argument 'autocomit'")

\* def init_db(): Base.metadat.create_all(bind=engine) -- MetaData is the class
\* attribute `metadata`.
init_db == Raise("AttributeError", "type object 'Base' has no attribute 'metadat'")

\* db: Session = Depends(get_db).  def get_db(): db = SessionLocal(); try: yield db;
\* finally: db.close().  The call of SessionLocal stands before the try: when it
\* raises, nothing is yielded and nothing is closed, the handler is not called and
\* the server answers 500 without a detail.
get_db(r) ==
    IF ~SessionLocal.ok
    THEN [r EXCEPT !.pc = "closed", !.opened = <<FALSE>>,
                   !.resp = AppResponse(500, "raw", <<>>, "", 0, <<>>)]
    ELSE [r EXCEPT !.pc = "opened", !.opened = <<TRUE>>, !.db = <<"SessionLocal">>]

InFlight == {c \in Clients : reqs[c].pc # "idle"}

AppFrame == UNCHANGED <<tools, routes, bound, invoked, hist, textVars, others,
                        factory, session, running, store>>

\* A client sends a request on the first free connection and the event loop of a
\* server that has not failed to start accepts it.
RequestAccepted(c, path, request) ==
    /\ out.op # "startup failed"
    /\ reqs[c].pc = "idle"
    /\ \A d \in Clients : reqs[d].pc = "idle" => c <= d
    /\ reqs' = [reqs EXCEPT ![c] = Arrived(path, request)]
    /\ UNCHANGED out
    /\ AppFrame

InitApp ==
    /\ factory = "SessionLocal"
    /\ store = <<>>
    /\ reqs = [c \in Clients |-> NoAppRequest]
    /\ running = 0
    /\ out = Op("init", "", "", NoKwargs, NoResponse)
    /\ invoked = <<>>
    /\ tools = <<>>
    /\ routes = <<>>
    /\ bound = FALSE
    /\ latest = [k \in {} |-> NoneV]
    /\ replaced = [name |-> "", func |-> ""]
    /\ binding = [prefix |-> "", regs |-> [k \in {} |-> NoneV]]
    /\ nRegs = 0
    /\ order = <<>>
    /\ content = <<>>
    /\ message = <<>>
    /\ others = <<>>
    /\ session = <<>>

\* async def lifespan(app): init_db(); yield.  The server runs it before it accepts
\* a request; init_db raises, the lifespan never yields and the start-up fails.
Lifespan ==
    /\ out.op = "init"
    /\ InFlight = {}
    /\ out' = Op(IF init_db.ok THEN "started" ELSE "startup failed", "", "lifespan",
                 NoKwargs, NoResponse)
    /\ UNCHANGED reqs
    /\ AppFrame

PostJobApplication(c, date_applied) ==
    /\ reqs[c].pc = "idle"
    /\ RequestAccepted(c, "/job-application", AppRequest(0, date_applied, NoneV))

PostLinkedinRequest(c) ==
    /\ reqs[c].pc = "idle"
    /\ RequestAccepted(c, "/task1/linkedin-request", AppRequest(0, NoneV, NoneV))

PostJobInquiry(c, id) ==
    /\ reqs[c].pc = "idle"
    /\ RequestAccepted(c, "/task2/job-inquiry", AppRequest(id, NoneV, NoneV))

PostResumeOptimization(c, id) ==
    /\ reqs[c].pc = "idle"
    /\ RequestAccepted(c, "/task3/resume-optimization", AppRequest(id, NoneV, NoneV))

PostCoverLetter(c, id, follow_up_answers) ==
    /\ reqs[c].pc = "idle"
    /\ RequestAccepted(c, "/task4/cover-letter", AppRequest(id, NoneV, follow_up_answers))

\* The worker thread runs get_db up to its yield: db = SessionLocal().
OpenSession(c) ==
    /\ reqs[c].pc = "arrived"
    /\ reqs' = [reqs EXCEPT ![c] = get_db(reqs[c])]
    /\ UNCHANGED out
    /\ AppFrame

\* The event loop sends the response and the connection is free again.
Respond(c) ==
    /\ reqs[c].pc = "closed"
    /\ reqs' = [reqs EXCEPT ![c] = NoAppRequest]
    /\ UNCHANGED out
    /\ AppFrame

NextApp ==
    \/ Lifespan
    \/ \E c \in Clients, d \in DatesApplied : PostJobApplication(c, d)
    \/ \E c \in Clients : PostLinkedinRequest(c)
    \/ \E c \in Clients, id \in JobIds : PostJobInquiry(c, id)
    \/ \E c \in Clients, id \in JobIds : PostResumeOptimization(c, id)
    \/ \E c \in Clients, id \in JobIds, a \in FollowUpAnswers : PostCoverLetter(c, id, a)
    \/ \E c \in Clients : OpenSession(c)
    \/ \E c \in Clients : Respond(c)

SpecApp == InitApp /\ [][NextApp]_vars

\* The rows of a table that reference a job application.
RowsOf(st, table, id) ==
    {i \in 1..Len(st) : st[i].table = table /\ st[i].job_application_id = id}

\* The requests whose handling is complete and whose response is about to be sent.
Finished == {c \in Clients : reqs[c].pc = "closed"}

\* C25: every stored JobInquiry, ResumeSuggestion and CoverLetter references a job
\* application that exists, and a request to /task2/job-inquiry,
\* /task3/resume-optimization or /task4/cover-letter whose job_application_id
\* matches no JobApplication (the database answering) returns 404, calls no
\* generation function and creates no record.
C25_UnknownIdIs404 ==
    /\ \A i \in 1..Len(store) :
          store[i].job_application_id # 0
              => JobAppExists(store, store[i].job_application_id)
    /\ \A c \in Finished :
          (/\ reqs[c].path \in TaskPaths
           /\ reqs[c].fault = ""
           /\ ~JobAppExists(store, reqs[c].request.job_application_id))
              => /\ reqs[c].resp.status = 404
                 /\ reqs[c].invoked = <<>>
                 /\ reqs[c].added = <<>>

C27_OneRecordPerApplication ==
    /\ \A id \in 1..Len(store) :
          /\ Cardinality(RowsOf(store, "CoverLetter", id)) <= 1
          /\ Cardinality(RowsOf(store, "ResumeSuggestion", id)) <= 1
    /\ \A c \in Finished :
          (/\ reqs[c].resp.status = 200
           /\ reqs[c].added # <<>>
           /\ reqs[c].path \in AsyncPaths)
             => Cardinality(RowsOf(store, reqs[c].added[1].table,
                                   reqs[c].request.job_application_id)) <= 1

SessionHas(s, k) == k \in DOMAIN s

\* st.session_state.k = v
SessionSet(s, k, v) == [x \in DOMAIN s \cup {k} |-> IF x = k THEN v ELSE s[x]]

\* st.session_state.pop(k)
SessionPop(s, k) == [x \in DOMAIN s \ {k} |-> s[x]]

\* A field of the job application with that id.
AppField(id) == [of |-> id]

\* A text generated from a request for the job application with that id.
Artefact(app, empty) == [app |-> app, empty |-> empty]

PdfBytes == {"", "%PDF"}
FollowUpTexts == {"", "a"}
QuestionLists == {<<>>, <<"q">>}

\* The most widgets whose events one run receives together.
MaxPressed == 2

\* The buttons of the script, by the names the script tests them under.
Widgets ==
    {"task1_submitted", "submitted_app", "col1", "col2", "submitted_follow_up", "col3",
     "submitted_task2"}

\* What the user has put into the forms: whether the required fields of the task 1
\* form, of the job application form (a file uploaded among them) and of the task 2
\* form are filled in, the bytes of the uploaded file, the text of the follow-up form.
FormInput(task1_filled, app_filled, resume_file, follow_up, task2_filled) ==
    [task1_filled |-> task1_filled, app_filled |-> app_filled,
     resume_file |-> resume_file, follow_up |-> follow_up, task2_filled |-> task2_filled]

Inputs ==
    {FormInput(t1, a, f, u, t2) :
        t1 \in BOOLEAN, a \in BOOLEAN, f \in PdfBytes, u \in FollowUpTexts, t2 \in BOOLEAN}

FrontResponse(status, kind, id, text, questions) ==
    [status |-> status, kind |-> kind, id |-> id, text |-> text, questions |-> questions]

\* What the backend answers to a request, before the ids of the rows are filled in:
\* the status, the kind of body, whether the generated text is empty, the questions.
Answer(status, kind, empty, questions) ==
    [status |-> status, kind |-> kind, empty |-> empty, questions |-> questions]

\* requests.post raises (no connection, or the answer is lost)
NoAnswer == Answer(0, "exception", TRUE, <<>>)
\* a status other than 200
ErrorAnswer == Answer(500, "error", TRUE, <<>>)
\* 200 {"job_application_id": ..., "job_description": ..., ...}
SavedAnswer == Answer(200, "job_application", FALSE, <<>>)
\* 200 {"message": ..., "length": ..., ...}
MessageAnswers == {Answer(200, "message", FALSE, <<>>)}
\* 200 {"suggestions": ..., "job_application_id": ..., "resume_suggestion_id": ...}
SuggestionAnswers == {Answer(200, "suggestions", e, <<>>) : e \in BOOLEAN}
\* 200 {"cover_letter": ..., "job_application_id": ..., "cover_letter_id": ..., "length": ...}
CoverLetterAnswers == {Answer(200, "cover_letter", e, <<>>) : e \in BOOLEAN}
\* 200 {"follow_up_needed": True, "questions": [...]}
FollowUpAnswers200 == {Answer(200, "follow_up", TRUE, q) : q \in QuestionLists}

\* What /task4/cover-letter can answer: follow_up_needed only to a request without
\* follow_up_answers.
CoverLetterResponses(follow_up_answers) ==
    {NoAnswer, ErrorAnswer} \cup CoverLetterAnswers
        \cup (IF follow_up_answers = "" THEN FollowUpAnswers200 ELSE {})

\* The table the endpoint a widget posts to adds its record to.
WidgetTable(w) ==
    CASE w = "task1_submitted" -> "Person"
      [] w = "submitted_app" -> "JobApplication"
      [] w = "col1" -> "ResumeSuggestion"
      [] w \in {"col2", "submitted_follow_up"} -> "CoverLetter"
      [] w = "submitted_task2" -> "JobInquiry"

\* The job_application_id the request of a widget carries, 0 when it carries none.
RequestApp(s, w) ==
    CASE w = "submitted_follow_up" -> s["cover_letter_data"].job_application_id
      [] w \in {"col1", "col2", "submitted_task2"} -> s["job_application_id"]
      [] OTHER -> 0

\* The answer as the frontend receives it: the record committed has the next id of
\* its table (the id of the job application saved, resume_suggestion_id,
\* cover_letter_id), and a generated text is one for the job application the request
\* named; an answer without a record has neither.
Answered(answer, s, st, w) ==
    IF answer.status = 200 /\ answer.kind # "follow_up"
    THEN FrontResponse(200, answer.kind, NextId(st, WidgetTable(w)),
                       Artefact(IF w = "submitted_app"
                                THEN NextId(st, "JobApplication")
                                ELSE RequestApp(s, w),
                                answer.empty),
                       answer.questions)
    ELSE FrontResponse(answer.status, answer.kind, 0, Artefact(0, TRUE), answer.questions)

\* A result a branch of the script has displayed.
Shown(w, kind, text) == [widget |-> w, kind |-> kind, text |-> text]

\* A run of the script so far: the session, the database, the answers to the
\* requests it has sent, the results displayed, the widgets rendered, and `stops`,
\* what the run leaves when it is stopped at one of the display calls it has come
\* to.
Snap(R) ==
    [session |-> R.session, store |-> R.store, resps |-> R.resps, shown |-> R.shown,
     page |-> R.page]

Run(s, st) ==
    [session |-> s, store |-> st, resps |-> <<>>, shown |-> <<>>, page |-> {},
     stops |-> <<>>]

\* A display call (st.write, st.success, st.error, st.markdown, a widget, ...): the
\* run may be stopped here.  Display calls between which nothing changes are one.
Display(R) ==
    IF R.stops # <<>> /\ R.stops[Len(R.stops)] = Snap(R) THEN R
    ELSE [R EXCEPT !.stops = Append(@, Snap(R))]

\* A display call that shows a generated text or a saved application.
Show(R, w, kind, text) == [Display(R) EXCEPT !.shown = Append(@, Shown(w, kind, text))]

\* A display call that puts a widget on the page.
Render(R, w) == [Display(R) EXCEPT !.page = @ \cup {w}]

Set(R, k, v) == [R EXCEPT !.session = SessionSet(@, k, v)]

Pop(R, k) == [R EXCEPT !.session = SessionPop(@, k)]

\* Whether the backend has committed the row of a request: not when it answers
\* follow_up_needed, always when it answers 200 otherwise, either when the answer is
\* an error or is lost.
Committed(answer) ==
    IF answer.kind = "follow_up" THEN {FALSE}
    ELSE IF answer.status = 200 THEN {TRUE}
    ELSE BOOLEAN

\* requests.post(...) of the branch of widget w has returned or raised: the answer
\* and, when the backend has committed it, the row.
Post(R, w, answer, committed) ==
    [R EXCEPT !.resps = Append(@, [widget |-> w,
                                   resp |-> Answered(answer, R.session, R.store, w)]),
              !.store = IF committed
                        THEN Append(@, Row(WidgetTable(w), NextId(@, WidgetTable(w)),
                                           RequestApp(R.session, w), <<>>))
                        ELSE @]

\* The runs a request leaves, one for each answer of the backend.  A request that
\* would take the tables beyond the bound is not made.
Requests(R, w, answers) ==
    IF Len(R.store) >= MaxRows THEN {}
    ELSE UNION {{Post(R, w, a, c) : c \in Committed(a)} : a \in answers}

\* The answer to the last request of a run.
Resp(R) == R.resps[Len(R.resps)].resp

\* st.session_state.get(k) of a text is truthy
CachedText(s, k) == SessionHas(s, k) /\ ~s[k].empty

\* if task1_submitted: ...
task1_submitted(R, filled) ==
    IF ~filled
    THEN {Display(R)}
    ELSE {IF Resp(P).status = 200
          THEN Display(Show(P, "task1_submitted", "message", Resp(P).text))
          ELSE Display(P) :
             P \in Requests(R, "task1_submitted", {NoAnswer, ErrorAnswer} \cup MessageAnswers)}

\* if submitted_app: ...
job_application_submitted(R, filled, resume_file) ==
    IF ~filled
    THEN {Display(R)}
    ELSE {IF Resp(P).status = 200
          THEN Display(Show(
                   Set(Set(Set(Set(Set(Set(Set(Display(P),
                       "job_application", AppField(Resp(P).id)),
                       "job_application_id", Resp(P).id),
                       "job_description", AppField(Resp(P).id)),
                       "company", AppField(Resp(P).id)),
                       "job_title", AppField(Resp(P).id)),
                       "date_applied", AppField(Resp(P).id)),
                       "resume_file", resume_file),
                   "submitted_app", "saved", Artefact(Resp(P).id, FALSE)))
          ELSE Display(P) :
             P \in Requests(R, "submitted_app", {NoAnswer, ErrorAnswer, SavedAnswer})}

\* if col1.button("Resume Suggestions"): ...
resume_suggestions_pressed(R) ==
    IF CachedText(R.session, "resume_suggestions")
    THEN {Display(Show(R, "col1", "suggestions", R.session["resume_suggestions"]))}
    ELSE {IF Resp(P).status = 200
          THEN Display(Show(Set(Set(P, "resume_suggestions", Resp(P).text),
                                "resume_suggestion_id", Resp(P).id),
                            "col1", "suggestions", Resp(P).text))
          ELSE Display(P) :
             P \in Requests(Display(R), "col1", {NoAnswer, ErrorAnswer} \cup SuggestionAnswers)}

\* data = {"job_application_id": ..., "job_description": ..., "company": ...,
\*         "job_title": ..., "follow_up_answers": ""}
CoverLetterData(s, follow_up_answers) ==
    [job_application_id |-> s["job_application_id"],
     job_description |-> s["job_description"],
     company |-> s["company"],
     job_title |-> s["job_title"],
     follow_up_answers |-> follow_up_answers]

\* if col2.button("Cover Letter Generation"): ...
cover_letter_pressed(R) ==
    IF CachedText(R.session, "cover_letter_result")
    THEN {Display(Show(R, "col2", "cover_letter", R.session["cover_letter_result"]))}
    ELSE {IF Resp(P).status = 200 /\ Resp(P).kind = "follow_up"
          THEN Set(Set(Set(Set(P,
                   "cover_letter_data", CoverLetterData(R.session, "")),
                   "cover_letter_files", R.session["resume_file"]),
                   "cover_letter_questions", Resp(P).questions),
                   "cover_letter_initial", TRUE)
          ELSE IF Resp(P).status = 200
          THEN Display(Show(Set(P, "cover_letter_result", Resp(P).text),
                            "col2", "cover_letter", Resp(P).text))
          ELSE Display(P) :
             P \in Requests(R, "col2", CoverLetterResponses(""))}

\* st.session_state.cover_letter_data["follow_up_answers"] = follow_up
WithAnswers(s, follow_up) ==
    SessionSet(s, "cover_letter_data",
               [s["cover_letter_data"] EXCEPT !.follow_up_answers = follow_up])

\* if submitted_follow_up: ...   (result2["cover_letter"] raises KeyError on a
\* follow_up_needed answer, which the `except Exception` reports)
follow_up_submitted(R, follow_up) ==
    {IF Resp(P).status = 200 /\ Resp(P).kind = "cover_letter"
     THEN Pop(Pop(Pop(
              Set(Display(Show(Set(P, "cover_letter_result", Resp(P).text),
                               "submitted_follow_up", "cover_letter", Resp(P).text)),
                  "cover_letter_initial", FALSE),
              "cover_letter_data"), "cover_letter_files"), "cover_letter_questions")
     ELSE Display(P) :
        P \in Requests([R EXCEPT !.session = WithAnswers(@, follow_up)],
                       "submitted_follow_up", CoverLetterResponses(follow_up))}

\* if submitted_task2: ...
task2_submitted(R, filled) ==
    IF ~filled
    THEN {Display(R)}
    ELSE {IF Resp(P).status = 200
          THEN Display(Show(P, "submitted_task2", "message", Resp(P).text))
          ELSE Display(P) :
             P \in Requests(R, "submitted_task2", {NoAnswer, ErrorAnswer} \cup MessageAnswers)}

\* if st.session_state.get("job_application_id") and st.session_state.get("resume_file")
TaskButtonsShown(s) ==
    /\ SessionHas(s, "job_application_id") /\ s["job_application_id"] # 0
    /\ SessionHas(s, "resume_file") /\ s["resume_file"] # ""

\* if st.session_state.get("cover_letter_initial")
\*    and st.session_state.get("cover_letter_questions")
FollowUpFormShown(s) ==
    /\ SessionHas(s, "cover_letter_initial") /\ s["cover_letter_initial"]
    /\ SessionHas(s, "cover_letter_questions") /\ s["cover_letter_questions"] # <<>>

\* The title and the task 1 form; if task1_submitted: ...
Task1(Rs, pressed, input) ==
    UNION {IF "task1_submitted" \in pressed
           THEN task1_submitted(Display(R), input.task1_filled)
           ELSE {Display(R)} : R \in Rs}

\* The job application form; if submitted_app: ...
JobApplicationForm(Rs, pressed, input) ==
    UNION {IF "submitted_app" \in pressed
           THEN job_application_submitted(Display(R), input.app_filled, input.resume_file)
           ELSE {Display(R)} : R \in Rs}

\* col1, col2, col3 = st.columns(3); if col1.button("Resume Suggestions"): ...
Task3(Rs, pressed) ==
    UNION {IF "col1" \in pressed
           THEN resume_suggestions_pressed(Render(Display(R), "col1"))
           ELSE {Render(Display(R), "col1")} : R \in Rs}

\* if col2.button("Cover Letter Generation"): ...
Task4(Rs, pressed) ==
    UNION {IF "col2" \in pressed
           THEN cover_letter_pressed(Render(R, "col2"))
           ELSE {Render(R, "col2")} : R \in Rs}

\* The follow-up form, shown when the follow-up state is stored:
\* if submitted_follow_up: ...
FollowUpForm(Rs, pressed, input) ==
    UNION {IF ~FollowUpFormShown(R.session) THEN {R}
           ELSE IF "submitted_follow_up" \in pressed
           THEN follow_up_submitted(Render(Display(R), "submitted_follow_up"),
                                    input.follow_up)
           ELSE {Render(Display(R), "submitted_follow_up")} : R \in Rs}

\* if "show_task2_form" not in st.session_state: st.session_state.show_task2_form = False
Task2Flag(Rs) ==
    {IF SessionHas(R.session, "show_task2_form") THEN R
     ELSE Set(R, "show_task2_form", FALSE) : R \in Rs}

\* if col3.button("Insider Connection Request"): st.session_state.show_task2_form = True
Insider(Rs, pressed) ==
    {IF "col3" \in pressed THEN Set(Render(R, "col3"), "show_task2_form", TRUE)
     ELSE Render(R, "col3") : R \in Rs}

\* if st.session_state.get("show_task2_form"): the task2 form;
\* if submitted_task2: ...
Task2Form(Rs, pressed, input) ==
    UNION {IF ~R.session["show_task2_form"] THEN {R}
           ELSE IF "submitted_task2" \in pressed
           THEN task2_submitted(Render(Display(R), "submitted_task2"), input.task2_filled)
           ELSE {Render(Display(R), "submitted_task2")} : R \in Rs}

\* The part of the script under "Next Steps for Your Job Application", run when the
\* session holds a job application and its resume.
NextSteps(Rs, pressed, input) ==
    UNION {IF ~TaskButtonsShown(R.session) THEN {R}
           ELSE Task2Form(
                    Insider(
                        Task2Flag(
                            FollowUpForm(Task4(Task3({R}, pressed), pressed),
                                         pressed, input)),
                        pressed),
                    pressed, input) : R \in Rs}

\* The runs of the script, from its first line, that find the widgets of `pressed`
\* pressed: one for each way the backend answers the requests the run sends.
streamlit_app(s, st, pressed, input) ==
    NextSteps(JobApplicationForm(Task1({Run(s, st)}, pressed, input), pressed, input),
              pressed, input)

\* What a run leaves when it is stopped at its k-th stop, or completes.
Stages(R) == Append(R.stops, Snap(R))

\* What the last run has left in the browser: the widgets on the page.
FrontOp(page) == [page |-> page]

InitFront ==
    /\ session = <<>>
    /\ store = <<>>
    /\ out = FrontOp({})
    /\ invoked = <<>>
    /\ tools = <<>>
    /\ routes = <<>>
    /\ bound = FALSE
    /\ latest = [k \in {} |-> NoneV]
    /\ replaced = [name |-> "", func |-> ""]
    /\ binding = [prefix |-> "", regs |-> [k \in {} |-> NoneV]]
    /\ nRegs = 0
    /\ order = <<>>
    /\ reqs = <<>>
    /\ running = 0
    /\ content = <<>>
    /\ message = <<>>
    /\ others = <<>>
    /\ factory = ""

FrontFrame == UNCHANGED <<tools, routes, bound, invoked, hist, loopVars, textVars, others,
                          factory>>

\* What a run leaves when it is stopped at a stop or, at the last stage, completes:
\* the session, the database and the page, on which the widgets a stopped run has
\* not rendered again stay.
Left(stage, completed) ==
    [session |-> stage.session,
     store |-> stage.store,
     out |-> FrontOp(IF completed THEN stage.page ELSE out.page \cup stage.page)]

\* What the runs of Rs can leave: each is stopped at one of its stops or completes.
Ends(Rs) ==
    UNION {{Left(Stages(R)[k], k = Len(R.stops) + 1) : k \in 1..(Len(R.stops) + 1)} :
              R \in Rs}

\* What the user can have put into the forms when a run finds the widgets of
\* `pressed` pressed: the input of a form that is not submitted is not read.
InputsFor(pressed) ==
    {input \in Inputs :
        /\ input.task1_filled => "task1_submitted" \in pressed
        /\ input.app_filled => "submitted_app" \in pressed
        /\ input.resume_file # "" => input.app_filled
        /\ input.follow_up # "" => "submitted_follow_up" \in pressed
        /\ input.task2_filled => "submitted_task2" \in pressed}

\* The sets of at most n widgets a run can find pressed: widgets that are on the page.
Pressable(page, n) ==
    {pressed \in SUBSET ({"task1_submitted", "submitted_app"} \cup page) :
        Cardinality(pressed) <= n}

\* The runs the script can make from a session, a database and a page when it finds
\* at most n widgets pressed: one for each set of widgets pressed, each input of the
\* forms submitted and each way the backend answers.
ScriptRuns(s, st, page, n) ==
    UNION {UNION {streamlit_app(s, st, pressed, input) : input \in InputsFor(pressed)} :
              pressed \in Pressable(page, n)}

\* A run of the script: it finds some widgets of the page pressed, reads what the
\* user has put into the forms submitted, gets the answers of the backend to its
\* requests, and is stopped at one of its stops or completes.
ScriptRun ==
    /\ \E left \in Ends(ScriptRuns(session, store, out.page, MaxPressed)) :
          /\ session' = left.session
          /\ store' = left.store
          /\ out' = left.out
    /\ FrontFrame

NextFront ==
    \/ ScriptRun

SpecFront == InitFront /\ [][NextFront]_vars

\* A run of the script that finds at most one widget pressed and completes: the
\* user presses a widget and waits for the page before pressing the next.
StepRun ==
    /\ \E R \in ScriptRuns(session, store, out.page, 1) :
          /\ session' = R.session
          /\ store' = R.store
          /\ out' = FrontOp(R.page)
    /\ FrontFrame

NextFrontSteps ==
    \/ StepRun

\* The behaviours of SpecFront in which the user waits for the page after each press.
SpecFrontSteps == InitFront /\ [][NextFrontSteps]_vars

\* The results a run has displayed under "Resume Suggestions" and "Cover Letter
\* Generation".
TaskResults(R) ==
    {R.shown[i] : i \in {j \in 1..Len(R.shown) :
                            /\ R.shown[j].widget \in {"col1", "col2"}
                            /\ R.shown[j].kind \in {"suggestions", "cover_letter"}}}

\* C29: in every state the frontend reaches, what a press of "Resume Suggestions" or
\* of "Cover Letter Generation" displays was generated for the job application whose
\* id the session holds.
C29_ShownBelongsToCurrent ==
    \A R \in ScriptRuns(session, store, out.page \cap {"col1", "col2"}, 1) :
        \A shown \in TaskResults(R) : shown.text.app = R.session["job_application_id"]

FollowUpKeys ==
    {"cover_letter_initial", "cover_letter_questions", "cover_letter_data",
     "cover_letter_files"}

\* The follow-up state: cover_letter_initial true with questions, data and files stored.
FollowUpState(s) ==
    /\ FollowUpKeys \subseteq DOMAIN s
    /\ s["cover_letter_initial"]

FollowUpPart(s) == [k \in DOMAIN s \cap FollowUpKeys |-> s[k]]

\* A run whose only request was the submission of the follow-up form, and the
\* submission did not get a cover letter.
FollowUpFailed(R) ==
    /\ Len(R.resps) = 1
    /\ R.resps[1].widget = "submitted_follow_up"
    /\ ~(R.resps[1].resp.status = 200 /\ R.resps[1].resp.kind = "cover_letter")

====
